---- MODULE Spec2Model ----
(***************************************************************************)
(* A model of the papirs whiteboard client: the edit history               *)
(* (model/history.rs), the tile index (model/tiling.rs), rect_diff         *)
(* (utils.rs), the document operations of Model (model.rs) that keep       *)
(* history and index in step with the path collection, and the controller  *)
(* with its gesture handlers (ctrl.rs).                                    *)
(***************************************************************************)
EXTENDS Integers, Sequences, FiniteSets, TLC

(***************************************************************************)
(* Bounds of the model.                                                    *)
(***************************************************************************)
\* Path identifiers are 1..NumPathIds (PathId is a random Uuid in the code).
NumPathIds == 2
\* Document specification: edits are offered while the undo stack is shorter than this.
MaxHist == 2
\* History specification: pushes are offered while the two stacks hold fewer commands.
MaxStack == 3
\* Controller specification: a drawing gesture collects at most this many points.
MaxDraw == 3

\* Tiling::TILE_LEN
TILE_LEN == 128

VARIABLES
    paths,              \* Model.paths: PathId -> RenderablePath
    tiling,             \* Model.tiling: [tiles, tile_ids]
    history,            \* Model.history: [undo_stack, redo_stack, state]
    selected_path_ids,  \* Model.selected_path_ids
    hidden_path_ids,    \* Model.hidden_path_ids
    tool,               \* Model.tool: "Selector", "Pen" or "Eraser"
    offset,             \* Model.offset: the scroll offset
    active_handler,     \* Controller.active_handler: None or the handler of the gesture
    fault,              \* "none", or the message of the panic that aborted the last call
    op,                 \* the name of the last call
    pre,                \* what is remembered of the last calls: [s1, s2, prev, arg, ret]
    pen_color,          \* Model.pen_color
    is_updated,         \* Recorder.is_updated of each recorded field of Model
    storage             \* Model.storage: the values last saved under the persisted keys

vars ==
    <<paths, tiling, history, selected_path_ids, hidden_path_ids, tool, offset,
      active_handler, fault, op, pre, pen_color, is_updated, storage>>

(***************************************************************************)
(* Maps (FxHashMap) as functions with a finite domain.                     *)
(***************************************************************************)
EmptyMap == <<>>

MapInsert(f, k, v) == [x \in (DOMAIN f) \cup {k} |-> IF x = k THEN v ELSE f[x]]

MapRemove(f, k) == [x \in (DOMAIN f) \ {k} |-> f[x]]

\* entry(k).or_default() of a map whose values default to the empty map or Vec
GetOrDefault(f, k) == IF k \in DOMAIN f THEN f[k] ELSE <<>>

SeqToSet(s) == {s[i] : i \in DOMAIN s}

NoDup(s) == \A i, j \in DOMAIN s : i # j => s[i] # s[j]

MinOf(a, b) == IF a <= b THEN a ELSE b

MaxOf(a, b) == IF a >= b THEN a ELSE b

(***************************************************************************)
(* Geometry: the part of the geo crate the index uses, on integers.        *)
(***************************************************************************)
Coordinate(x, y) == [x |-> x, y |-> y]

CoordAdd(c, d) == Coordinate(c.x + d.x, c.y + d.y)

\* CoordNeg that negates the x component only
CoordNeg_XOnly(d) == Coordinate(0 - d.x, d.y)

CoordNeg(d) == Coordinate(0 - d.x, 0 - d.y)

\* Rect::new orders the two corners into min and max
RectNew(c1, c2) ==
    [min |-> Coordinate(MinOf(c1.x, c2.x), MinOf(c1.y, c2.y)),
     max |-> Coordinate(MaxOf(c1.x, c2.x), MaxOf(c1.y, c2.y))]

LineNew(s, e) == [start |-> s, end |-> e]

\* LineString::lines(): the segments between consecutive points
Lines(coords) == [i \in 1..(Len(coords) - 1) |-> LineNew(coords[i], coords[i + 1])]

LineBoundingRect(line) == RectNew(line.start, line.end)

\* sign of the cross product (q - p) x (r - q): geo's orient2d on integers
Orient2d(p, q, r) ==
    LET res == (q.x - p.x) * (r.y - q.y) - (q.y - p.y) * (r.x - q.x)
    IN  IF res > 0 THEN 1 ELSE IF res < 0 THEN -1 ELSE 0

\* value lies in the box spanned by bound1 and bound2
PointInRect(value, bound1, bound2) ==
    /\ MinOf(bound1.x, bound2.x) <= value.x /\ value.x <= MaxOf(bound1.x, bound2.x)
    /\ MinOf(bound1.y, bound2.y) <= value.y /\ value.y <= MaxOf(bound1.y, bound2.y)

LineIntersectsCoord(line, c) ==
    /\ Orient2d(line.start, line.end, c) = 0
    /\ PointInRect(c, line.start, line.end)

LineIntersectsLine(l1, l2) ==
    IF l1.start = l1.end THEN LineIntersectsCoord(l2, l1.start)
    ELSE LET c11 == Orient2d(l1.start, l1.end, l2.start)
             c12 == Orient2d(l1.start, l1.end, l2.end)
         IN  IF c11 # c12
             THEN Orient2d(l2.start, l2.end, l1.start) # Orient2d(l2.start, l2.end, l1.end)
             ELSE IF c11 = 0
             THEN \/ PointInRect(l2.start, l1.start, l1.end)
                  \/ PointInRect(l2.end, l1.start, l1.end)
                  \/ PointInRect(l1.end, l2.start, l2.end)
             ELSE FALSE

RectIntersectsCoord(rect, c) ==
    /\ rect.min.x <= c.x /\ c.x <= rect.max.x
    /\ rect.min.y <= c.y /\ c.y <= rect.max.y

\* a closed segment meets a closed rectangle: an end point inside, or an edge crossed
LineIntersectsRect(line, rect) ==
    LET lt == rect.min
        rb == rect.max
        lb == Coordinate(lt.x, rb.y)
        rt == Coordinate(rb.x, lt.y)
    IN  \/ RectIntersectsCoord(rect, line.start)
        \/ RectIntersectsCoord(rect, line.end)
        \/ LineIntersectsLine(LineNew(lt, rt), line)
        \/ LineIntersectsLine(LineNew(rt, rb), line)
        \/ LineIntersectsLine(LineNew(lb, rb), line)
        \/ LineIntersectsLine(LineNew(lt, lb), line)

RectIntersectsRect(r1, r2) ==
    ~ \/ r1.max.x < r2.min.x
      \/ r1.max.y < r2.min.y
      \/ r1.min.x > r2.max.x
      \/ r1.min.y > r2.max.y

\* the quotient of the / operator, which rounds toward zero
DivEuclid_Trunc(a, b) == IF a < 0 THEN -((-a) \div b) ELSE a \div b

\* i32::div_euclid by a positive divisor rounds toward minus infinity
DivEuclid(a, b) == a \div b

(***************************************************************************)
(* Tiling (model/tiling.rs).                                               *)
(*   tiles:    TileId -> (PathId -> Vec<Line>)                             *)
(*   tile_ids: PathId -> the tiles the path occupies (a Vec collected from *)
(*             a hash set: its order carries no meaning, so a set here)    *)
(***************************************************************************)
TilingDefault == [tiles |-> EmptyMap, tile_ids |-> EmptyMap]

TileRect(id) ==
    RectNew(Coordinate(id.x * TILE_LEN, id.y * TILE_LEN),
            Coordinate((id.x + 1) * TILE_LEN, (id.y + 1) * TILE_LEN))

\* TileRange over the half-open ranges x0..x1 and y0..y1
TileRange_HalfOpen(rect) ==
    LET x0 == DivEuclid(rect.min.x, TILE_LEN)
        x1 == DivEuclid(rect.max.x, TILE_LEN)
        y0 == DivEuclid(rect.min.y, TILE_LEN)
        y1 == DivEuclid(rect.max.y, TILE_LEN)
        ny == y1 - y0
    IN  [i \in 1..((x1 - x0) * ny) |->
            Coordinate(x0 + ((i - 1) \div ny), y0 + ((i - 1) % ny))]

\* xs.cartesian_product(ys): x outer, y inner
TileRange(rect) ==
    LET x0 == DivEuclid(rect.min.x, TILE_LEN)
        x1 == DivEuclid(rect.max.x, TILE_LEN)
        y0 == DivEuclid(rect.min.y, TILE_LEN)
        y1 == DivEuclid(rect.max.y, TILE_LEN)
        ny == y1 - y0 + 1
    IN  [i \in 1..((x1 - x0 + 1) * ny) |->
            Coordinate(x0 + ((i - 1) \div ny), y0 + ((i - 1) % ny))]

\* BoundingTileIdsOfLine without the intersection filter
BoundingTileIdsOfLine_NoFilter(line) == TileRange(LineBoundingRect(line))

\* BoundingTileIdsOfLine that registers a segment without length under no tile
BoundingTileIdsOfLine_SkipPoint(line) ==
    IF line.start = line.end THEN <<>>
    ELSE SelectSeq(TileRange(LineBoundingRect(line)),
                   LAMBDA id : LineIntersectsRect(line, TileRect(id)))

\* bounding_tile_ids(line): the tiles of the bounding rectangle's grid range the line meets
BoundingTileIdsOfLine(line) ==
    SelectSeq(TileRange(LineBoundingRect(line)),
              LAMBDA id : LineIntersectsRect(line, TileRect(id)))

\* BoundingTileIdsOfRect that lists every tile twice
BoundingTileIdsOfRect_Twice(rect) ==
    SelectSeq(TileRange(rect), LAMBDA id : RectIntersectsRect(rect, TileRect(id)))
        \o SelectSeq(TileRange(rect), LAMBDA id : RectIntersectsRect(rect, TileRect(id)))

\* bounding_tile_ids(rect)
BoundingTileIdsOfRect(rect) ==
    SelectSeq(TileRange(rect), LAMBDA id : RectIntersectsRect(rect, TileRect(id)))

\* self.tiles.entry(tile_id).or_default().entry(path_id).or_default().push(line)
PushLine(tiles, tile_id, path_id, line) ==
    LET per_tile == GetOrDefault(tiles, tile_id)
        lines == GetOrDefault(per_tile, path_id)
    IN  MapInsert(tiles, tile_id, MapInsert(per_tile, path_id, Append(lines, line)))

\* the inner loop of insert_path: one line pushed to each of its tiles, from the i-th on
RECURSIVE PushLineToTiles(_, _, _, _, _)
PushLineToTiles(tiles, ids, i, path_id, line) ==
    IF i > Len(ids) THEN tiles
    ELSE PushLineToTiles(PushLine(tiles, ids[i], path_id, line), ids, i + 1, path_id, line)

\* one turn of the outer loop of insert_path, ids being the tiles of the line
InsertLine(acc, ids, path_id, line) ==
    [tiles |-> PushLineToTiles(acc.tiles, ids, 1, path_id, line),
     tile_ids |-> acc.tile_ids \cup SeqToSet(ids)]

\* the outer loop of insert_path: acc = [tiles, tile_ids (the local hash set)]
RECURSIVE InsertLines(_, _, _, _)
InsertLines(acc, lines, i, path_id) ==
    IF i > Len(lines) THEN acc
    ELSE InsertLines(InsertLine(acc, BoundingTileIdsOfLine(lines[i]), path_id, lines[i]),
                     lines, i + 1, path_id)

\* insert_path panics ("path already exists") after it has written the entries
InsertPathFaults(t, path_id) == path_id \in DOMAIN t.tile_ids

\* InsertPath that records in tile_ids the tiles of the first line only
InsertPath_FirstLineOnly(t, path_id, coords) ==
    LET acc == InsertLines([tiles |-> t.tiles, tile_ids |-> {}], Lines(coords), 1, path_id)
        first == IF Len(coords) < 2 THEN {}
                 ELSE SeqToSet(BoundingTileIdsOfLine(Lines(coords)[1]))
    IN  [tiles |-> acc.tiles, tile_ids |-> MapInsert(t.tile_ids, path_id, first)]

\* self.tile_ids.insert(path_id, tile_ids) after the loops, acc being their result
InsertTileIds(t, path_id, acc) ==
    [tiles |-> acc.tiles, tile_ids |-> MapInsert(t.tile_ids, path_id, acc.tile_ids)]

InsertPath(t, path_id, coords) ==
    InsertTileIds(t, path_id,
        InsertLines([tiles |-> t.tiles, tile_ids |-> {}], Lines(coords), 1, path_id))

\* remove_path panics ("path not found") before it changes anything
RemovePathFaults(t, path_id) == path_id \notin DOMAIN t.tile_ids

\* RemovePath that drops the reverse-lookup entry and leaves the tiles as they are
RemovePath_KeepEntries(t, path_id) ==
    [tiles |-> t.tiles, tile_ids |-> MapRemove(t.tile_ids, path_id)]

\* RemovePath that clears the tiles and keeps the reverse-lookup entry
RemovePath_KeepReverse(t, path_id) ==
    [tiles |-> [tile_id \in DOMAIN t.tiles |->
                    IF tile_id \in t.tile_ids[path_id]
                    THEN MapRemove(t.tiles[tile_id], path_id)
                    ELSE t.tiles[tile_id]],
     tile_ids |-> t.tile_ids]

\* retain(|id, _| id != &path_id) in every tile of the path; the tile itself stays
RemovePath(t, path_id) ==
    [tiles |-> [tile_id \in DOMAIN t.tiles |->
                    IF tile_id \in t.tile_ids[path_id]
                    THEN MapRemove(t.tiles[tile_id], path_id)
                    ELSE t.tiles[tile_id]],
     tile_ids |-> MapRemove(t.tile_ids, path_id)]

TilingClear(t) == [tiles |-> EmptyMap, tile_ids |-> EmptyMap]

\* Tiling::from_iter over a path collection, in the order ids lists its keys
RECURSIVE TilingFromIter(_, _, _)
TilingFromIter(ps, ids, i) ==
    IF i > Len(ids) THEN TilingDefault
    ELSE InsertPath(TilingFromIter(ps, ids, i + 1), ids[i], ps[ids[i]].path.coords)

(***************************************************************************)
(* Paths (common.rs).                                                      *)
(***************************************************************************)
\* Option::None
NoneValue == [none |-> TRUE]

PathNew(color, coords) == [color |-> color, coords |-> coords]

\* the smallest and largest coordinate of a non-empty point sequence
CoordsBoundingRect(coords) ==
    LET xs == {coords[i].x : i \in DOMAIN coords}
        ys == {coords[i].y : i \in DOMAIN coords}
    IN  [min |-> Coordinate(CHOOSE v \in xs : \A w \in xs : v <= w,
                            CHOOSE v \in ys : \A w \in ys : v <= w),
         max |-> Coordinate(CHOOSE v \in xs : \A w \in xs : v >= w,
                            CHOOSE v \in ys : \A w \in ys : v >= w)]

\* ExpandRect that moves the max corner only
ExpandRect_MaxOnly(rect, delta) ==
    RectNew(rect.min, Coordinate(rect.max.x + delta, rect.max.y + delta))

ExpandRect(rect, delta) ==
    RectNew(Coordinate(rect.min.x - delta, rect.min.y - delta),
            Coordinate(rect.max.x + delta, rect.max.y + delta))

\* RenderablePath::new: None for an empty path, else the path with its cached rectangle
RenderablePathNew(path) ==
    IF path.coords = <<>> THEN NoneValue
    ELSE [path |-> path, bounding_rect |-> ExpandRect(CoordsBoundingRect(path.coords), 5)]

\* translate_inplace
Translate(coords, delta) == [i \in DOMAIN coords |-> CoordAdd(coords[i], delta)]

(***************************************************************************)
(* rect_diff (utils.rs).                                                   *)
(***************************************************************************)
\* origin.x *= -1 and so on, when the flag of the axis is set
Flip(c, flip_x, flip_y) ==
    Coordinate(IF flip_x THEN 0 - c.x ELSE c.x, IF flip_y THEN 0 - c.y ELSE c.y)

\* MapCoordsInplace that leaves the rectangle as it is
MapCoordsInplace_Keep(rect, flip_x, flip_y) == rect

\* rect.map_coords_inplace(|&(x, y)| (if flip_x { -x } else { x }, ...)): a new Rect of
\* the two mapped corners
MapCoordsInplace(rect, flip_x, flip_y) ==
    RectNew(Flip(rect.min, flip_x, flip_y), Flip(rect.max, flip_x, flip_y))

\* the branch of rect_diff for a new diagonal at or before the origin on some axis
RectDiffWhole(origin, old_diag, new_diag) ==
    [removed |-> <<RectNew(origin, old_diag)>>, added |-> <<RectNew(origin, new_diag)>>]

\* RectDiffSlabs whose added slabs span the old extent of the other axis
RectDiffSlabs_OldExtent(origin, old_diag, new_diag) ==
    LET x == IF old_diag.x < new_diag.x
             THEN [removed |-> <<>>,
                   added |-> <<RectNew(Coordinate(old_diag.x, origin.y),
                                       Coordinate(new_diag.x, old_diag.y))>>]
             ELSE IF old_diag.x = new_diag.x THEN [removed |-> <<>>, added |-> <<>>]
             ELSE [removed |-> <<RectNew(Coordinate(new_diag.x, origin.y), old_diag)>>,
                   added |-> <<>>]
    IN  IF old_diag.y < new_diag.y
        THEN [x EXCEPT !.added = Append(x.added,
                    RectNew(Coordinate(origin.x, old_diag.y),
                            Coordinate(old_diag.x, new_diag.y)))]
        ELSE IF old_diag.y = new_diag.y THEN x
        ELSE [x EXCEPT !.removed = Append(x.removed,
                    RectNew(Coordinate(origin.x, new_diag.y), old_diag))]

\* RectDiffSlabs whose X slabs start at the origin
RectDiffSlabs_FromOrigin(origin, old_diag, new_diag) ==
    LET x == IF old_diag.x < new_diag.x
             THEN [removed |-> <<>>, added |-> <<RectNew(origin, new_diag)>>]
             ELSE IF old_diag.x = new_diag.x THEN [removed |-> <<>>, added |-> <<>>]
             ELSE [removed |-> <<RectNew(origin, old_diag)>>, added |-> <<>>]
    IN  IF old_diag.y < new_diag.y
        THEN [x EXCEPT !.added = Append(x.added,
                    RectNew(Coordinate(origin.x, old_diag.y), new_diag))]
        ELSE IF old_diag.y = new_diag.y THEN x
        ELSE [x EXCEPT !.removed = Append(x.removed,
                    RectNew(Coordinate(origin.x, new_diag.y), old_diag))]

\* RectDiffSlabs that also pushes slabs for an unchanged axis
RectDiffSlabs_EqualToo(origin, old_diag, new_diag) ==
    LET x == IF old_diag.x <= new_diag.x
             THEN [removed |-> <<>>,
                   added |-> <<RectNew(Coordinate(old_diag.x, origin.y), new_diag)>>]
             ELSE [removed |-> <<RectNew(Coordinate(new_diag.x, origin.y), old_diag)>>,
                   added |-> <<>>]
    IN  IF old_diag.y <= new_diag.y
        THEN [x EXCEPT !.added = Append(x.added,
                    RectNew(Coordinate(origin.x, old_diag.y), new_diag))]
        ELSE [x EXCEPT !.removed = Append(x.removed,
                    RectNew(Coordinate(origin.x, new_diag.y), old_diag))]

\* the other branch: match old_diag.x.cmp(&new_diag.x), then match old_diag.y.cmp(..)
RectDiffSlabs(origin, old_diag, new_diag) ==
    LET x == IF old_diag.x < new_diag.x
             THEN [removed |-> <<>>,
                   added |-> <<RectNew(Coordinate(old_diag.x, origin.y), new_diag)>>]
             ELSE IF old_diag.x = new_diag.x THEN [removed |-> <<>>, added |-> <<>>]
             ELSE [removed |-> <<RectNew(Coordinate(new_diag.x, origin.y), old_diag)>>,
                   added |-> <<>>]
    IN  IF old_diag.y < new_diag.y
        THEN [x EXCEPT !.added = Append(x.added,
                    RectNew(Coordinate(origin.x, old_diag.y), new_diag))]
        ELSE IF old_diag.y = new_diag.y THEN x
        ELSE [x EXCEPT !.removed = Append(x.removed,
                    RectNew(Coordinate(origin.x, new_diag.y), old_diag))]

\* rect_diff: flip so that origin <= old_diag, take a branch, flip the rectangles back
RectDiff(origin, old_diag, new_diag) ==
    LET flip_x == old_diag.x < origin.x
        flip_y == old_diag.y < origin.y
        o == Flip(origin, flip_x, flip_y)
        od == Flip(old_diag, flip_x, flip_y)
        nd == Flip(new_diag, flip_x, flip_y)
        d == IF nd.x <= o.x \/ nd.y <= o.y
             THEN RectDiffWhole(o, od, nd)
             ELSE RectDiffSlabs(o, od, nd)
    IN  [removed |-> [i \in DOMAIN d.removed |-> MapCoordsInplace(d.removed[i], flip_x, flip_y)],
         added |-> [i \in DOMAIN d.added |-> MapCoordsInplace(d.added[i], flip_x, flip_y)]]

(***************************************************************************)
(* History (model/history.rs). state is "None", "Undoing" or "Redoing".    *)
(***************************************************************************)
HistoryDefault == [undo_stack |-> <<>>, redo_stack |-> <<>>, state |-> "None"]

\* HistoryPush without redo_stack.clear() in the None arm
HistoryPush_KeepRedo(h, com) ==
    CASE h.state = "None" ->
            [h EXCEPT !.undo_stack = Append(h.undo_stack, com)]
      [] h.state = "Undoing" ->
            [h EXCEPT !.redo_stack = Append(h.redo_stack, com), !.state = "None"]
      [] h.state = "Redoing" ->
            [h EXCEPT !.undo_stack = Append(h.undo_stack, com), !.state = "None"]

\* HistoryPush with the Undoing and Redoing arms treated as a fresh edit
HistoryPush_AlwaysFresh(h, com) ==
    [h EXCEPT !.undo_stack = Append(h.undo_stack, com), !.redo_stack = <<>>,
              !.state = "None"]

HistoryPush(h, com) ==
    CASE h.state = "None" ->
            [h EXCEPT !.undo_stack = Append(h.undo_stack, com), !.redo_stack = <<>>]
      [] h.state = "Undoing" ->
            [h EXCEPT !.redo_stack = Append(h.redo_stack, com), !.state = "None"]
      [] h.state = "Redoing" ->
            [h EXCEPT !.undo_stack = Append(h.undo_stack, com), !.state = "None"]

\* StartFaults with the assertion left out
StartFaults_Never(h) == FALSE

\* assert!(self.state.is_none(), "previous operation not finished")
StartFaults(h) == h.state # "None"

\* Vec::pop
Pop(stack) == SubSeq(stack, 1, Len(stack) - 1)

Top(stack) == stack[Len(stack)]

\* StartUndo that forgets to enter the Undoing state
StartUndo_NoState(h) ==
    IF h.undo_stack = <<>> THEN [history |-> h, com |-> NoneValue]
    ELSE [history |-> [h EXCEPT !.undo_stack = SubSeq(h.undo_stack, 1, Len(h.undo_stack) - 1)],
          com |-> h.undo_stack[Len(h.undo_stack)]]

\* start_undo past its assertion: [history, com]
StartUndo(h) ==
    IF h.undo_stack = <<>> THEN [history |-> h, com |-> NoneValue]
    ELSE [history |-> [h EXCEPT !.undo_stack = Pop(h.undo_stack), !.state = "Undoing"],
          com |-> Top(h.undo_stack)]

\* StartRedo that leaves the command on the redo stack
StartRedo_NoPop(h) ==
    IF h.redo_stack = <<>> THEN [history |-> h, com |-> NoneValue]
    ELSE [history |-> [h EXCEPT !.state = "Redoing"], com |-> Top(h.redo_stack)]

\* start_redo past its assertion: [history, com]
StartRedo(h) ==
    IF h.redo_stack = <<>> THEN [history |-> h, com |-> NoneValue]
    ELSE [history |-> [h EXCEPT !.redo_stack = Pop(h.redo_stack), !.state = "Redoing"],
          com |-> Top(h.redo_stack)]

(***************************************************************************)
(* Command (model.rs).                                                     *)
(***************************************************************************)
CommandInsert(path_ids) == [kind |-> "Insert", path_ids |-> path_ids]

CommandShift(path_ids, delta) == [kind |-> "Shift", path_ids |-> path_ids, delta |-> delta]

\* paths: a sequence of <<PathId, RenderablePath>>
CommandRemove(ps) == [kind |-> "Remove", paths |-> ps]

(***************************************************************************)
(* Model (model.rs): the document operations, as functions of the record   *)
(*   m = [paths, tiling, history, selected_path_ids, hidden_path_ids,      *)
(*        fault].                                                          *)
(* A panic stops the call where it is raised: m.fault holds its message    *)
(* and the steps after it are not taken.                                   *)
(***************************************************************************)
Ids(ps) == [i \in DOMAIN ps |-> ps[i][1]]

\* self.history.push(com) at the end of an operation, r being the document after its
\* loop: a panic in the loop has left the operation before the push
PushUnlessFaulted(r, com) ==
    IF r.fault # "none" THEN r
    ELSE [r EXCEPT !.history = HistoryPush(r.history, com)]

\* the closure of insert_paths for one path, t being the index after insert_path
InsertOne(m, id, path, t) ==
    IF InsertPathFaults(m.tiling, id)
    THEN [m EXCEPT !.tiling = t, !.fault = "path already exists"]
    ELSE IF id \in DOMAIN m.paths
    THEN [m EXCEPT !.tiling = t, !.paths = MapInsert(m.paths, id, path),
                   !.fault = "path already exists"]
    ELSE [m EXCEPT !.tiling = t, !.paths = MapInsert(m.paths, id, path)]

\* the closure of insert_paths, for the paths from the i-th on
RECURSIVE InsertEach(_, _, _)
InsertEach(m, ps, i) ==
    IF i > Len(ps) \/ m.fault # "none" THEN m
    ELSE InsertEach(InsertOne(m, ps[i][1], ps[i][2],
                              InsertPath(m.tiling, ps[i][1], ps[i][2].path.coords)),
                    ps, i + 1)

\* ModelInsertPaths that returns early, without a command, when given no path
ModelInsertPaths_SkipEmpty(m, ps) ==
    IF ps = <<>> THEN m
    ELSE PushUnlessFaulted(InsertEach(m, ps, 1), CommandInsert(Ids(ps)))

ModelInsertPaths(m, ps) == PushUnlessFaulted(InsertEach(m, ps, 1), CommandInsert(Ids(ps)))

\* the closure of shift_paths, for the ids from the i-th on
RECURSIVE ShiftEach(_, _, _, _)
ShiftEach(m, ids, i, delta) ==
    IF i > Len(ids) \/ m.fault # "none" THEN m
    ELSE LET id == ids[i]
         IN  IF id \notin DOMAIN m.paths THEN [m EXCEPT !.fault = "path not found"]
             ELSE LET old == m.paths[id].path
                      path == RenderablePathNew(PathNew(old.color, Translate(old.coords, delta)))
                      ps == [m.paths EXCEPT ![id] = path]
                  IN  IF path = NoneValue
                      THEN [m EXCEPT !.fault = "path should not be empty"]
                      ELSE IF RemovePathFaults(m.tiling, id)
                      THEN [m EXCEPT !.paths = ps, !.fault = "path not found"]
                      ELSE LET t == InsertPath(RemovePath(m.tiling, id), id, path.path.coords)
                           IN  ShiftEach([m EXCEPT !.paths = ps, !.tiling = t],
                                         ids, i + 1, delta)

\* ModelShiftPaths that drops the moved paths from the selection
ModelShiftPaths_Unselect(m, ids, delta) ==
    LET m1 == PushUnlessFaulted(ShiftEach(m, ids, 1, delta), CommandShift(ids, delta))
    IN  [m1 EXCEPT !.selected_path_ids = @ \ SeqToSet(ids)]

ModelShiftPaths(m, ids, delta) ==
    PushUnlessFaulted(ShiftEach(m, ids, 1, delta), CommandShift(ids, delta))

\* PushRemoved that records only the path removed last
PushRemoved_LastOnly(acc) ==
    PushUnlessFaulted(acc.m, CommandRemove(IF acc.paths = <<>> THEN <<>>
                                           ELSE <<Top(acc.paths)>>))

\* self.history.push(Command::Remove { paths }) with the paths the closure collected
PushRemoved(acc) == PushUnlessFaulted(acc.m, CommandRemove(acc.paths))

\* the closure of remove_paths, for the ids from the i-th on: acc = [m, paths]
RECURSIVE RemoveEach(_, _, _)
RemoveEach(acc, ids, i) ==
    IF i > Len(ids) \/ acc.m.fault # "none" THEN acc
    ELSE LET id == ids[i]
             m == acc.m
         IN  IF RemovePathFaults(m.tiling, id)
             THEN [acc EXCEPT !.m.fault = "path not found"]
             ELSE LET m1 == [m EXCEPT !.tiling = RemovePath(m.tiling, id),
                                      !.selected_path_ids = m.selected_path_ids \ {id},
                                      !.hidden_path_ids = m.hidden_path_ids \ {id}]
                  IN  IF id \notin DOMAIN m.paths
                      THEN [acc EXCEPT !.m = [m1 EXCEPT !.fault = "path not found"]]
                      ELSE RemoveEach([m |-> [m1 EXCEPT !.paths = MapRemove(m.paths, id)],
                                       paths |-> Append(acc.paths, <<id, m.paths[id]>>)],
                                      ids, i + 1)

\* ModelRemovePaths that records no command
ModelRemovePaths_NoPush(m, ids) == RemoveEach([m |-> m, paths |-> <<>>], ids, 1).m

ModelRemovePaths(m, ids) ==
    PushRemoved(RemoveEach([m |-> m, paths |-> <<>>], ids, 1))

\* ModelRemoveSelectedPaths without the early return for an empty selection
ModelRemoveSelectedPaths_AlwaysPush(m, ids) ==
    ModelRemovePaths([m EXCEPT !.selected_path_ids = {}], ids)

\* ids: the order in which the hash set of selected ids is drained
ModelRemoveSelectedPaths(m, ids) ==
    IF m.selected_path_ids = {} THEN m
    ELSE ModelRemovePaths([m EXCEPT !.selected_path_ids = {}], ids)

\* ModelClearPaths without self.tiling.clear()
ModelClearPaths_KeepIndex(m, ids) ==
    IF DOMAIN m.paths = {} THEN m
    ELSE [m EXCEPT !.paths = EmptyMap,
                   !.selected_path_ids = {},
                   !.hidden_path_ids = {},
                   !.history = HistoryPush(m.history,
                        CommandRemove([i \in DOMAIN ids |-> <<ids[i], m.paths[ids[i]]>>]))]

\* ModelClearPaths without the early return for an empty document
ModelClearPaths_AlwaysPush(m, ids) ==
    [m EXCEPT !.paths = EmptyMap,
              !.tiling = TilingClear(m.tiling),
              !.selected_path_ids = {},
              !.hidden_path_ids = {},
              !.history = HistoryPush(m.history,
                    CommandRemove([i \in DOMAIN ids |-> <<ids[i], m.paths[ids[i]]>>]))]

\* ModelClearPaths that leaves the hidden set as it is
ModelClearPaths_KeepHidden(m, ids) ==
    IF DOMAIN m.paths = {} THEN m
    ELSE [m EXCEPT !.paths = EmptyMap,
                   !.tiling = TilingClear(m.tiling),
                   !.selected_path_ids = {},
                   !.history = HistoryPush(m.history,
                        CommandRemove([i \in DOMAIN ids |-> <<ids[i], m.paths[ids[i]]>>]))]

\* ids: the order in which the map of paths is drained
ModelClearPaths(m, ids) ==
    IF DOMAIN m.paths = {} THEN m
    ELSE [m EXCEPT !.paths = EmptyMap,
                   !.tiling = TilingClear(m.tiling),
                   !.selected_path_ids = {},
                   !.hidden_path_ids = {},
                   !.history = HistoryPush(m.history,
                        CommandRemove([i \in DOMAIN ids |-> <<ids[i], m.paths[ids[i]]>>]))]

\* ModelRollback that shifts back by delta instead of -delta
ModelRollback_NoNeg(m, com) ==
    CASE com.kind = "Insert" -> ModelRemovePaths(m, com.path_ids)
      [] com.kind = "Shift" -> ModelShiftPaths(m, com.path_ids, com.delta)
      [] com.kind = "Remove" -> ModelInsertPaths(m, com.paths)

ModelRollback(m, com) ==
    CASE com.kind = "Insert" -> ModelRemovePaths(m, com.path_ids)
      [] com.kind = "Shift" -> ModelShiftPaths(m, com.path_ids, CoordNeg(com.delta))
      [] com.kind = "Remove" -> ModelInsertPaths(m, com.paths)

ModelUndo(m) ==
    IF StartFaults(m.history) THEN [m EXCEPT !.fault = "previous operation not finished"]
    ELSE LET s == StartUndo(m.history)
         IN  IF s.com = NoneValue THEN m
             ELSE ModelRollback([m EXCEPT !.history = s.history], s.com)

ModelRedo(m) ==
    IF StartFaults(m.history) THEN [m EXCEPT !.fault = "previous operation not finished"]
    ELSE LET s == StartRedo(m.history)
         IN  IF s.com = NoneValue THEN m
             ELSE ModelRollback([m EXCEPT !.history = s.history], s.com)

\* Rect contains Rect: every side of other within self
RectContainsRect(self, other) ==
    /\ self.min.x <= other.min.x /\ self.max.x >= other.max.x
    /\ self.min.y <= other.min.y /\ self.max.y >= other.max.y

\* bounding_tile_items: one item per tile of tile_ids and path registered in that tile
BoundingTileItems(t, tile_ids) ==
    {[tile_id |-> tile_id, path_id |-> path_id, lines |-> t.tiles[tile_id][path_id]] :
        <<tile_id, path_id>> \in
            {tp \in (SeqToSet(tile_ids) \cap DOMAIN t.tiles) \X DOMAIN t.tile_ids :
                tp[2] \in DOMAIN t.tiles[tp[1]]}}

\* what bounding_tile_items yields, from the i-th tile of tile_ids on: for each tile in
\* turn, one item per path of its map (the map of a tile is iterated in the order of ids;
\* tile_id is the tile the item comes from, which the item itself does not carry)
RECURSIVE BoundingTileItemsFrom(_, _, _)
BoundingTileItemsFrom(t, tile_ids, i) ==
    IF i > Len(tile_ids) THEN <<>>
    ELSE LET tile_id == tile_ids[i]
             per_tile == GetOrDefault(t.tiles, tile_id)
             ids == [j \in 1..Cardinality(DOMAIN per_tile) |->
                        CHOOSE p \in DOMAIN per_tile :
                            Cardinality({q \in DOMAIN per_tile : q < p}) = j - 1]
         IN  [j \in DOMAIN ids |->
                 [tile_id |-> tile_id, path_id |-> ids[j], lines |-> per_tile[ids[j]]]]
             \o BoundingTileItemsFrom(t, tile_ids, i + 1)

\* ModelSelectPathsWith that takes every candidate whose bounding box meets whole_rect
ModelSelectPathsWith_Intersecting(m, whole_rect, rect) ==
    LET items == BoundingTileItems(m.tiling, BoundingTileIdsOfRect(rect))
    IN  IF \E it \in items : it.path_id \notin DOMAIN m.paths
        THEN [m EXCEPT !.fault = "path not found"]
        ELSE [m EXCEPT !.selected_path_ids = m.selected_path_ids \cup
                {it.path_id : it \in {it \in items :
                    RectIntersectsRect(whole_rect,
                        CoordsBoundingRect(m.paths[it.path_id].path.coords))}}]

ModelSelectPathsWith(m, whole_rect, rect) ==
    LET items == BoundingTileItems(m.tiling, BoundingTileIdsOfRect(rect))
    IN  IF \E it \in items : it.path_id \notin DOMAIN m.paths
        THEN [m EXCEPT !.fault = "path not found"]
        ELSE [m EXCEPT !.selected_path_ids = m.selected_path_ids \cup
                {it.path_id : it \in {it \in items :
                    RectContainsRect(whole_rect,
                        CoordsBoundingRect(m.paths[it.path_id].path.coords))}}]

ModelUnselectPathsWith(m, rect) ==
    LET items == BoundingTileItems(m.tiling, BoundingTileIdsOfRect(rect))
    IN  [m EXCEPT !.selected_path_ids = m.selected_path_ids \
            {it.path_id : it \in {it \in items :
                \E i \in DOMAIN it.lines : LineIntersectsRect(it.lines[i], rect)}}]

ModelUnselectAllPaths(m) == [m EXCEPT !.selected_path_ids = {}]

\* ModelHidePath that skips an id the document does not hold
ModelHidePath_Skip(m, id) ==
    IF id \notin DOMAIN m.paths THEN m
    ELSE [m EXCEPT !.hidden_path_ids = m.hidden_path_ids \cup {id}]

ModelHidePath(m, id) ==
    IF id \notin DOMAIN m.paths THEN [m EXCEPT !.fault = "path not found"]
    ELSE [m EXCEPT !.hidden_path_ids = m.hidden_path_ids \cup {id}]

ModelUnhidePath(m, id) ==
    IF id \notin DOMAIN m.paths THEN [m EXCEPT !.fault = "path not found"]
    ELSE [m EXCEPT !.hidden_path_ids = m.hidden_path_ids \ {id}]

(***************************************************************************)
(* Controller and gesture handlers (ctrl.rs). A handler is a record with   *)
(* its kind and the fields of its struct. The handler operations take the  *)
(* document m and return [m, offset, h]: the document, the scroll offset   *)
(* and the handler after the call.                                         *)
(***************************************************************************)
CoordSub(c, d) == Coordinate(c.x - d.x, c.y - d.y)

\* Model::coord_at: screen coordinates to board coordinates
CoordAt(off, coord) == CoordSub(coord, off)

\* Model::scroll
ModelScroll(off, delta) == CoordAdd(off, delta)

\* Model::set_tool: any tool but the selector drops the selection
\* ModelSetTool that leaves the selection as it is
ModelSetTool_KeepSelection(m, t) == m

ModelSetTool(m, t) == IF t # "Selector" THEN ModelUnselectAllPaths(m) ELSE m

\* Rect contains Coordinate: the sides included
RectContainsCoord(rect, c) ==
    /\ c.x >= rect.min.x /\ c.y >= rect.min.y
    /\ c.x <= rect.max.x /\ c.y <= rect.max.y

\* the squared distance of point p from the segment a-b, as the fraction n / d
SegmentDistance(p, a, b) ==
    LET dx == b.x - a.x
        dy == b.y - a.y
        len2 == dx * dx + dy * dy
        dot == (p.x - a.x) * dx + (p.y - a.y) * dy
        cross == (p.x - a.x) * dy - (p.y - a.y) * dx
    IN  IF len2 = 0 \/ dot <= 0
        THEN [n |-> (p.x - a.x) * (p.x - a.x) + (p.y - a.y) * (p.y - a.y), d |-> 1]
        ELSE IF dot >= len2
        THEN [n |-> (p.x - b.x) * (p.x - b.x) + (p.y - b.y) * (p.y - b.y), d |-> 1]
        ELSE [n |-> cross * cross, d |-> len2]

FractionGreater(u, v) == u.n * v.d > v.n * u.d

\* Simplify that returns a one-point line string as it is
RECURSIVE Rdp_KeepSingle(_)
Rdp_KeepSingle(points) ==
    IF Len(points) <= 2 THEN points
    ELSE LET n == Len(points)
             dist(i) == SegmentDistance(points[i], points[1], points[n])
             index == CHOOSE i \in 2..(n - 1) :
                        /\ \A j \in 2..(n - 1) : ~FractionGreater(dist(j), dist(i))
                        /\ \A j \in 2..(i - 1) : FractionGreater(dist(i), dist(j))
         IN  IF 4 * dist(index).n > dist(index).d
             THEN Rdp_KeepSingle(SubSeq(points, 1, index))
                      \o Tail(Rdp_KeepSingle(SubSeq(points, index, n)))
             ELSE <<points[1], points[n]>>

\* LineString::simplify(&0.5), the Ramer-Douglas-Peucker algorithm of the geo crate: the
\* inner point farthest from the segment first-last splits the points when it is farther
\* than epsilon, otherwise the result is <<first, last>>, also for a single point
RECURSIVE Rdp(_)
Rdp(points) ==
    IF points = <<>> THEN <<>>
    ELSE LET n == Len(points)
             dist(i) == SegmentDistance(points[i], points[1], points[n])
             index == IF n <= 2 THEN 0
                      ELSE CHOOSE i \in 2..(n - 1) :
                            /\ \A j \in 2..(n - 1) : ~FractionGreater(dist(j), dist(i))
                            /\ \A j \in 2..(i - 1) : FractionGreater(dist(i), dist(j))
         IN  IF index # 0 /\ 4 * dist(index).n > dist(index).d
             THEN Rdp(SubSeq(points, 1, index)) \o Tail(Rdp(SubSeq(points, index, n)))
             ELSE <<points[1], points[n]>>

ScrollHandlerNew(coord) == [kind |-> "Scroll", prev_coord |-> coord]

ScrollMoveTo(h, m, off, coord) ==
    [m |-> m, offset |-> ModelScroll(off, CoordSub(coord, h.prev_coord)),
     h |-> [h EXCEPT !.prev_coord = coord]]

SelectHandlerNew(off, coord) ==
    [kind |-> "Select", start_coord |-> CoordAt(off, coord), prev_coord |-> CoordAt(off, coord)]

\* for removed_rect in diff.removed { model.unselect_paths_with(removed_rect) }
RECURSIVE UnselectEach(_, _, _)
UnselectEach(m, rects, i) ==
    IF i > Len(rects) \/ m.fault # "none" THEN m
    ELSE UnselectEach(ModelUnselectPathsWith(m, rects[i]), rects, i + 1)

\* for added_rect in diff.added { model.select_paths_with(whole_rect, added_rect) }
RECURSIVE SelectEach(_, _, _, _)
SelectEach(m, whole_rect, rects, i) ==
    IF i > Len(rects) \/ m.fault # "none" THEN m
    ELSE SelectEach(ModelSelectPathsWith(m, whole_rect, rects[i]), whole_rect, rects, i + 1)

\* the two loops of SelectHandler::move_to over the regions of diff
SelectDiff(m, whole_rect, diff) ==
    SelectEach(UnselectEach(m, diff.removed, 1), whole_rect, diff.added, 1)

\* a handler that has moved to the board point c, m1 being the document after the move:
\* self.prev_coord = coord is the last statement, which a panic does not reach
Moved(h, m1, off, c) ==
    [m |-> m1, offset |-> off,
     h |-> IF m1.fault # "none" THEN h ELSE [h EXCEPT !.prev_coord = c]]

\* SelectHandler::move_to at the board point c
SelectMoveToCoord(h, m, off, c) ==
    Moved(h, SelectDiff(m, RectNew(h.start_coord, c),
                        RectDiff(h.start_coord, h.prev_coord, c)), off, c)

SelectMoveTo(h, m, off, coord) == SelectMoveToCoord(h, m, off, CoordAt(off, coord))

\* hide_path and unhide_path for each id of a set
HideAll(m, ids) ==
    IF ids \subseteq DOMAIN m.paths
    THEN [m EXCEPT !.hidden_path_ids = m.hidden_path_ids \cup ids]
    ELSE [m EXCEPT !.hidden_path_ids = m.hidden_path_ids \cup (ids \cap DOMAIN m.paths),
                   !.fault = "path not found"]

UnhideAll(m, ids) ==
    IF ids \subseteq DOMAIN m.paths
    THEN [m EXCEPT !.hidden_path_ids = m.hidden_path_ids \ ids]
    ELSE [m EXCEPT !.hidden_path_ids = m.hidden_path_ids \ (ids \cap DOMAIN m.paths),
                   !.fault = "path not found"]

\* ShiftHandler::new: selected_paths() looks every selected id up, then each is hidden
ShiftHandlerNew(m, off, coord) ==
    IF ~(m.selected_path_ids \subseteq DOMAIN m.paths)
    THEN [m |-> [m EXCEPT !.fault = "path not found"], offset |-> off, h |-> NoneValue]
    ELSE [m |-> HideAll(m, m.selected_path_ids), offset |-> off,
          h |-> [kind |-> "Shift", shifting_path_ids |-> m.selected_path_ids,
                 start_coord |-> CoordAt(off, coord), prev_coord |-> CoordAt(off, coord)]]

\* move_to renders the paths it holds: Model::path panics for an id that is gone
ShiftMoveTo(h, m, off, coord) ==
    IF ~(h.shifting_path_ids \subseteq DOMAIN m.paths)
    THEN [m |-> [m EXCEPT !.fault = "path not found"], offset |-> off, h |-> h]
    ELSE [m |-> m, offset |-> off, h |-> [h EXCEPT !.prev_coord = CoordAt(off, coord)]]

\* ids: the order in which the hash set shifting_path_ids is iterated
UnhideUnlessFaulted(m1, ids) == IF m1.fault # "none" THEN m1 ELSE UnhideAll(m1, ids)

\* ShiftFinish without the calls of unhide_path
ShiftFinish_NoUnhide(h, m, ids) ==
    ModelShiftPaths(m, ids, CoordSub(h.prev_coord, h.start_coord))

ShiftFinish(h, m, ids) ==
    UnhideUnlessFaulted(ModelShiftPaths(m, ids, CoordSub(h.prev_coord, h.start_coord)),
                        h.shifting_path_ids)

DrawHandlerNew(off, coord) == [kind |-> "Draw", coords |-> <<CoordAt(off, coord)>>]

DrawMoveTo(h, m, off, coord) ==
    [m |-> m, offset |-> off, h |-> [h EXCEPT !.coords = Append(h.coords, CoordAt(off, coord))]]

\* id: the PathId that PathId::gen() returns
\* RenderablePath::new(path).expect(..), then insert_paths(iter::once((id, path)))
InsertDrawn(m, id, path) ==
    IF path = NoneValue THEN [m EXCEPT !.fault = "path should not be empty"]
    ELSE ModelInsertPaths(m, <<<<id, path>>>>)

DrawFinish(h, m, id) ==
    InsertDrawn(m, id, RenderablePathNew(PathNew("Black", Rdp(h.coords))))

EraseHandlerNew(off, coord) ==
    [kind |-> "Erase", removing_path_ids |-> {}, prev_coord |-> CoordAt(off, coord)]

\* the ids EraseHandler::move_to collects from the items of the tiles of eraser_line
ErasedIds(h, items, eraser_line) ==
    {items[i].path_id : i \in
        {i \in DOMAIN items :
            /\ items[i].path_id \notin h.removing_path_ids
            /\ \E j \in DOMAIN items[i].lines :
                    LineIntersectsLine(items[i].lines[j], eraser_line)}}

\* EraseIds without the calls of hide_path
EraseIds_NoHide(h, m, off, ids, c) ==
    Moved([h EXCEPT !.removing_path_ids = h.removing_path_ids \cup ids], m, off, c)

\* hide_path for each of ids, then removing_path_ids.extend(ids) and prev_coord = coord
EraseIds(h, m, off, ids, c) ==
    Moved([h EXCEPT !.removing_path_ids = h.removing_path_ids \cup ids],
          HideAll(m, ids), off, c)

\* EraseHandler::move_to at the board point c, the eraser line being prev_coord-c
EraseAlong(h, m, off, eraser_line, c) ==
    EraseIds(h, m, off,
             ErasedIds(h, BoundingTileItemsFrom(m.tiling, BoundingTileIdsOfLine(eraser_line), 1),
                       eraser_line),
             c)

EraseMoveToCoord(h, m, off, c) == EraseAlong(h, m, off, LineNew(h.prev_coord, c), c)

EraseMoveTo(h, m, off, coord) == EraseMoveToCoord(h, m, off, CoordAt(off, coord))

\* ids: the order in which the hash set removing_path_ids is iterated
EraseFinish(h, m, ids) == ModelRemovePaths(m, ids)

\* Handler::move_to of the active handler
MoveTo(h, m, off, coord) ==
    CASE h.kind = "Scroll" -> ScrollMoveTo(h, m, off, coord)
      [] h.kind = "Select" -> SelectMoveTo(h, m, off, coord)
      [] h.kind = "Shift" -> ShiftMoveTo(h, m, off, coord)
      [] h.kind = "Draw" -> DrawMoveTo(h, m, off, coord)
      [] h.kind = "Erase" -> EraseMoveTo(h, m, off, coord)

\* on_pointer_down with the left button and no active handler
LeftDown(m, t, off, coord) ==
    IF ~(m.selected_path_ids \subseteq DOMAIN m.paths)
    THEN [m |-> [m EXCEPT !.fault = "path not found"], offset |-> off, h |-> NoneValue]
    ELSE IF \E id \in m.selected_path_ids :
                RectContainsCoord(m.paths[id].bounding_rect, CoordAt(off, coord))
    THEN ShiftHandlerNew(m, off, coord)
    ELSE [m |-> ModelUnselectAllPaths(m), offset |-> off,
          h |-> CASE t = "Selector" -> SelectHandlerNew(off, coord)
                  [] t = "Pen" -> DrawHandlerNew(off, coord)
                  [] t = "Eraser" -> EraseHandlerNew(off, coord)]

\* PointerDown without the early return while a handler is active
PointerDown_Replace(m, t, off, h, button, coord) ==
    CASE button = "Left" -> LeftDown(m, t, off, coord)
      [] button = "Middle" -> [m |-> m, offset |-> off, h |-> ScrollHandlerNew(coord)]
      [] OTHER -> [m |-> m, offset |-> off, h |-> h]

\* Controller::on_pointer_down: nothing while a handler is active
PointerDown(m, t, off, h, button, coord) ==
    CASE h # NoneValue -> [m |-> m, offset |-> off, h |-> h]
      [] h = NoneValue /\ button = "Left" -> LeftDown(m, t, off, coord)
      [] h = NoneValue /\ button = "Middle" ->
            [m |-> m, offset |-> off, h |-> ScrollHandlerNew(coord)]
      [] OTHER -> [m |-> m, offset |-> off, h |-> h]

\* Controller::on_pointer_move: nothing without an active handler
PointerMove(m, off, h, coord) ==
    IF h = NoneValue THEN [m |-> m, offset |-> off, h |-> h]
    ELSE MoveTo(h, m, off, coord)

(***************************************************************************)
(* Inputs.                                                                 *)
(***************************************************************************)
PathIds == 1..NumPathIds

\* the point sequence drawn under each id (ids are never reused for another path):
\* within one tile; across a tile corner, so that the bounding box of the second
\* segment covers a tile the segment misses, and across the axes; a single point
InputCoords ==
    << <<Coordinate(0, 0), Coordinate(10, 0)>>,
       <<Coordinate(-5, 100), Coordinate(120, 0), Coordinate(136, 250)>>,
       <<Coordinate(5, 5)>> >>

InputPath(id) ==
    RenderablePathNew(PathNew("Black", InputCoords[((id - 1) % Len(InputCoords)) + 1]))

\* moves a path to other tiles
InputDeltas == {Coordinate(128, -7)}

\* everything; the tile (0, 0) but its upper sides; a region of that tile no path meets
InputRects ==
    { RectNew(Coordinate(-200, -200), Coordinate(400, 400)),
      RectNew(Coordinate(0, 0), Coordinate(127, 127)),
      RectNew(Coordinate(0, 50), Coordinate(20, 60)) }

\* the sequences without repetition over a set of ids
SeqsOver(S) ==
    {s \in UNION {[1..n -> S] : n \in 0..Cardinality(S)} : NoDup(s)}

\* the orders in which a hash set or map of ids can be iterated
OrdersOf(S) == {s \in [1..Cardinality(S) -> S] : NoDup(s)}

(***************************************************************************)
(* The state machine. Every call runs to completion (the client is single  *)
(* threaded); after a panic nothing more is called.                        *)
(***************************************************************************)
Cur ==
    [paths |-> paths, tiling |-> tiling, history |-> history,
     selected_path_ids |-> selected_path_ids, hidden_path_ids |-> hidden_path_ids,
     fault |-> fault]

\* the fields of Model wrapped in a Recorder, and those of them that save() writes
RecorderFields ==
    {"paths", "selected_path_ids", "hidden_path_ids", "offset", "tool", "pen_color"}

PersistedFields == {"paths", "offset", "tool", "pen_color"}

\* Model::load on an empty storage
ModelDefault ==
    [paths |-> EmptyMap, tiling |-> TilingDefault, history |-> HistoryDefault,
     selected_path_ids |-> {}, hidden_path_ids |-> {}, fault |-> "none"]

Edits == {"insert_paths", "shift_paths", "remove_paths", "remove_selected_paths", "clear_paths"}

\* the calls whose starting state pre.s1 records
Recorded ==
    Edits \cup {"undo", "redo", "insert_path", "remove_path", "clear",
                "push", "start_undo", "start_redo", "rect_diff",
                "select_paths_with", "unselect_paths_with"}

\* the pairs of consecutive calls whose first starting state pre.s2 records
RecordedPairs ==
    (Edits \X {"undo"}) \cup {<<"undo", "redo">>, <<"insert_path", "remove_path">>}

\* The call named o, with argument arg, took the program from Cur to m and returned ret.
\*   pre.s1:   the state the last call started from, for the calls in Recorded
\*   pre.s2:   the state the call before it started from, for the pairs in RecordedPairs
\*   pre.prev: the name of the call before it, for the same pairs
Step(o, arg, ret, m, t, off, h) ==
    /\ fault = "none"
    /\ paths' = m.paths
    /\ tiling' = m.tiling
    /\ history' = m.history
    /\ selected_path_ids' = m.selected_path_ids
    /\ hidden_path_ids' = m.hidden_path_ids
    /\ tool' = t
    /\ offset' = off
    /\ active_handler' = h
    /\ fault' = m.fault
    /\ op' = o
    /\ pre' = [s1 |-> IF o \in Recorded THEN Cur ELSE NoneValue,
               s2 |-> IF <<op, o>> \in RecordedPairs THEN pre.s1 ELSE NoneValue,
               prev |-> IF <<op, o>> \in RecordedPairs THEN op ELSE "none",
               arg |-> arg,
               ret |-> ret]
    /\ UNCHANGED <<pen_color, is_updated, storage>>

\* a call that leaves the tool, the offset and the controller alone
Call(o, arg, ret, m) == Step(o, arg, ret, m, tool, offset, active_handler)

Init ==
    /\ paths = ModelDefault.paths
    /\ tiling = ModelDefault.tiling
    /\ history = ModelDefault.history
    /\ selected_path_ids = ModelDefault.selected_path_ids
    /\ hidden_path_ids = ModelDefault.hidden_path_ids
    /\ tool = "Pen"
    /\ offset = Coordinate(0, 0)
    /\ active_handler = NoneValue
    /\ fault = ModelDefault.fault
    /\ op = "load"
    /\ pre = [s1 |-> NoneValue, s2 |-> NoneValue, prev |-> "none",
              arg |-> NoneValue, ret |-> NoneValue]
    /\ pen_color = "Black"
    /\ is_updated = [f \in RecorderFields |-> FALSE]
    /\ storage = [paths |-> EmptyMap, offset |-> Coordinate(0, 0),
                  tool |-> "Pen", pen_color |-> "Black"]

(***************************************************************************)
(* The document: the calls of Model, with arguments that respect their     *)
(* preconditions (fresh ids inserted, present ids shifted and removed).    *)
(***************************************************************************)
\* new edits are offered while the undo stack is short
Room == Len(history.undo_stack) < MaxHist

ComIds(com) ==
    IF com.kind = "Remove" THEN SeqToSet(Ids(com.paths)) ELSE SeqToSet(com.path_ids)

\* an id generated once is never generated again: ids the document or its history know
UsedIds ==
    DOMAIN paths
        \cup UNION {ComIds(history.undo_stack[i]) : i \in DOMAIN history.undo_stack}
        \cup UNION {ComIds(history.redo_stack[i]) : i \in DOMAIN history.redo_stack}

InsertPaths ==
    \E ids \in SeqsOver(PathIds \ UsedIds) :
        /\ Room
        /\ ids # <<>>
        /\ Call("insert_paths", [ids |-> ids], NoneValue,
                ModelInsertPaths(Cur, [i \in DOMAIN ids |-> <<ids[i], InputPath(ids[i])>>]))

ShiftPaths ==
    \E ids \in SeqsOver(DOMAIN paths), delta \in InputDeltas :
        /\ Room
        /\ Call("shift_paths", [ids |-> ids, delta |-> delta], NoneValue,
                ModelShiftPaths(Cur, ids, delta))

RemovePaths ==
    \E ids \in SeqsOver(DOMAIN paths) :
        /\ Room
        /\ Call("remove_paths", [ids |-> ids], NoneValue, ModelRemovePaths(Cur, ids))

RemoveSelectedPaths ==
    \E ids \in OrdersOf(selected_path_ids) :
        /\ Room
        /\ Call("remove_selected_paths", [ids |-> ids], NoneValue,
                ModelRemoveSelectedPaths(Cur, ids))

ClearPaths ==
    \E ids \in OrdersOf(DOMAIN paths) :
        /\ Room
        /\ Call("clear_paths", [ids |-> ids], NoneValue, ModelClearPaths(Cur, ids))

\* the region a drag adds lies within the whole marquee
SelectPathsWith ==
    \E whole_rect \in InputRects, rect \in InputRects :
        /\ RectContainsRect(whole_rect, rect)
        /\ Call("select_paths_with", [whole_rect |-> whole_rect, rect |-> rect], NoneValue,
                ModelSelectPathsWith(Cur, whole_rect, rect))

UnselectPathsWith ==
    \E rect \in InputRects :
        Call("unselect_paths_with", [rect |-> rect], NoneValue,
             ModelUnselectPathsWith(Cur, rect))

UnselectAllPaths == Call("unselect_all_paths", NoneValue, NoneValue, ModelUnselectAllPaths(Cur))

HidePath ==
    \E id \in DOMAIN paths : Call("hide_path", NoneValue, NoneValue, ModelHidePath(Cur, id))

UnhidePath ==
    \E id \in DOMAIN paths :
        Call("unhide_path", NoneValue, NoneValue, ModelUnhidePath(Cur, id))

Undo == Call("undo", NoneValue, NoneValue, ModelUndo(Cur))

Redo == Call("redo", NoneValue, NoneValue, ModelRedo(Cur))

Next ==
    \/ InsertPaths
    \/ ShiftPaths
    \/ RemovePaths
    \/ RemoveSelectedPaths
    \/ ClearPaths
    \/ SelectPathsWith
    \/ UnselectPathsWith
    \/ UnselectAllPaths
    \/ HidePath
    \/ UnhidePath
    \/ Undo
    \/ Redo

Spec == Init /\ [][Next]_vars

(***************************************************************************)
(* The document and its index under a caller that respects no precondition: *)
(* any id is inserted, shifted, removed, hidden and unhidden, in the        *)
(* document and in the index directly.                                      *)
(***************************************************************************)
\* Tiling::insert_path with its assertion
TilingInsertPathOrFault(m, path_id, coords) ==
    [m EXCEPT !.tiling = InsertPath(m.tiling, path_id, coords),
              !.fault = IF InsertPathFaults(m.tiling, path_id)
                        THEN "path already exists" ELSE "none"]

\* Tiling::remove_path with its expect
TilingRemovePathOrFault(m, path_id) ==
    IF RemovePathFaults(m.tiling, path_id) THEN [m EXCEPT !.fault = "path not found"]
    ELSE [m EXCEPT !.tiling = RemovePath(m.tiling, path_id)]

AnyInsertPath ==
    \E path_id \in PathIds :
        Call("insert_path", [path_id |-> path_id], NoneValue,
             TilingInsertPathOrFault(Cur, path_id, InputPath(path_id).path.coords))

AnyRemovePath ==
    \E path_id \in PathIds :
        Call("remove_path", [path_id |-> path_id], NoneValue,
             TilingRemovePathOrFault(Cur, path_id))

AnyInsertPaths ==
    \E ids \in SeqsOver(PathIds) :
        /\ Room
        /\ Call("insert_paths", [ids |-> ids], NoneValue,
                ModelInsertPaths(Cur, [i \in DOMAIN ids |-> <<ids[i], InputPath(ids[i])>>]))

AnyShiftPaths ==
    \E ids \in SeqsOver(PathIds), delta \in InputDeltas :
        /\ Room
        /\ Call("shift_paths", [ids |-> ids, delta |-> delta], NoneValue,
                ModelShiftPaths(Cur, ids, delta))

AnyRemovePaths ==
    \E ids \in SeqsOver(PathIds) :
        /\ Room
        /\ Call("remove_paths", [ids |-> ids], NoneValue, ModelRemovePaths(Cur, ids))

AnyHidePath ==
    \E id \in PathIds :
        Call("hide_path", [id |-> id], NoneValue, ModelHidePath(Cur, id))

AnyUnhidePath ==
    \E id \in PathIds :
        Call("unhide_path", [id |-> id], NoneValue, ModelUnhidePath(Cur, id))

NextFaults ==
    \/ AnyInsertPath
    \/ AnyRemovePath
    \/ AnyInsertPaths
    \/ AnyShiftPaths
    \/ AnyRemovePaths
    \/ AnyHidePath
    \/ AnyUnhidePath

SpecFaults == Init /\ [][NextFaults]_vars

(***************************************************************************)
(* The history alone: History<C> under any caller, also one that starts a  *)
(* rollback before the previous one has pushed its inverse.                *)
(***************************************************************************)
InputCommands ==
    { CommandInsert(<<1>>),
      CommandShift(<<1>>, Coordinate(128, -7)),
      CommandRemove(<<>>) }

HistoryCall(o, arg, ret, h, f) == Call(o, arg, ret, [Cur EXCEPT !.history = h, !.fault = f])

Push ==
    \E com \in InputCommands :
        /\ Len(history.undo_stack) + Len(history.redo_stack) < MaxStack
        /\ HistoryCall("push", com, NoneValue, HistoryPush(history, com), "none")

StartUndoCall ==
    IF StartFaults(history)
    THEN HistoryCall("start_undo", NoneValue, NoneValue, history,
                     "previous operation not finished")
    ELSE HistoryCall("start_undo", NoneValue, StartUndo(history).com,
                     StartUndo(history).history, "none")

StartRedoCall ==
    IF StartFaults(history)
    THEN HistoryCall("start_redo", NoneValue, NoneValue, history,
                     "previous operation not finished")
    ELSE HistoryCall("start_redo", NoneValue, StartRedo(history).com,
                     StartRedo(history).history, "none")

NextHistory ==
    \/ Push
    \/ StartUndoCall
    \/ StartRedoCall

SpecHistory == Init /\ [][NextHistory]_vars

(***************************************************************************)
(* The tile index alone: insert_path, remove_path and clear under their    *)
(* preconditions.                                                          *)
(***************************************************************************)
\* point sequences for the index: the document's, one shifted to negative tiles, and a
\* segment along a tile boundary
TilingInputCoords ==
    SeqToSet(InputCoords) \cup
    { <<Coordinate(-130, -1), Coordinate(-1, -130)>>,
      <<Coordinate(128, 0), Coordinate(128, 128)>> }

\* the caller keeps the paths it has indexed, as Model does
TilingCall(o, arg, t, ps) == Call(o, arg, NoneValue, [Cur EXCEPT !.tiling = t, !.paths = ps])

TilingInsertPath ==
    \E path_id \in PathIds \ DOMAIN tiling.tile_ids, coords \in TilingInputCoords :
        TilingCall("insert_path", [path_id |-> path_id, coords |-> coords],
                   InsertPath(tiling, path_id, coords),
                   MapInsert(paths, path_id, RenderablePathNew(PathNew("Black", coords))))

TilingRemovePath ==
    \E path_id \in DOMAIN tiling.tile_ids :
        TilingCall("remove_path", [path_id |-> path_id], RemovePath(tiling, path_id),
                   MapRemove(paths, path_id))

TilingClearCall == TilingCall("clear", NoneValue, TilingClear(tiling), EmptyMap)

NextTiling ==
    \/ TilingInsertPath
    \/ TilingRemovePath
    \/ TilingClearCall

SpecTiling == Init /\ [][NextTiling]_vars

(***************************************************************************)
(* rect_diff alone, called as a selection drag calls it: with the corner   *)
(* where the drag started, the previous corner and the new one.            *)
(***************************************************************************)
RectDiffValues == {-50, 0, 50, 100}

RectDiffCoords == {Coordinate(x, y) : x, y \in RectDiffValues}

RectDiffCall ==
    \E origin, old_diag, new_diag \in RectDiffCoords :
        /\ op = "rect_diff" => origin = pre.arg.origin /\ old_diag = pre.arg.new_diag
        /\ Call("rect_diff",
                [origin |-> origin, old_diag |-> old_diag, new_diag |-> new_diag],
                RectDiff(origin, old_diag, new_diag), Cur)

NextRectDiff == RectDiffCall

SpecRectDiff == Init /\ [][NextRectDiff]_vars

(***************************************************************************)
(* The controller: the events the page delivers, each run to completion.   *)
(* The pointer works on the board points of BoardCoords, which lie around  *)
(* the tile corner (128, 128); a wheel turn or a middle-button drag        *)
(* scrolls between the offsets of CtrlOffsets.                             *)
(***************************************************************************)
BoardCoords == {Coordinate(120, 120), Coordinate(136, 124)}

CtrlOffsets == {Coordinate(0, 0), Coordinate(16, 4)}

\* the pointer positions on the screen: over a board point under some offset
CtrlCoords == {CoordAdd(c, off) : c \in BoardCoords, off \in CtrlOffsets}

WheelDeltas == {Coordinate(16, 4), Coordinate(-16, -4)}

Tools == {"Selector", "Pen", "Eraser"}

\* the keyboard events: <<key, ctrl_key>>
KeyEvents == {<<"Delete", FALSE>>, <<"z", TRUE>>, <<"y", TRUE>>, <<"z", FALSE>>}

Buttons == {"Left", "Middle", "Other"}

\* the variant of AnyHandler the controller holds, "None" for no handler
HandlerKind(h) == IF h = NoneValue THEN "None" ELSE h.kind

\* a controller call: the document, the tool, the offset and the handler after it.
\* Of the events only on_pointer_up, which finishes a gesture, is recorded by name, with
\* the handler it took out of active_handler; every other event is recorded as "event"
CtrlCall(o, taken, m, t, off, h) == Step(o, NoneValue, taken, m, t, off, h)

CtrlSetTool ==
    \E t \in Tools :
        CtrlCall("event", NoneValue, ModelSetTool(Cur, t),
                 t, offset, active_handler)

CtrlClearPaths ==
    \E ids \in OrdersOf(DOMAIN paths) :
        /\ Room
        /\ CtrlCall("event", NoneValue, ModelClearPaths(Cur, ids),
                    tool, offset, active_handler)

OnKeyDown ==
    \E event \in KeyEvents, ids \in OrdersOf(selected_path_ids) :
        LET key == event[1]
            ctrl_key == event[2]
        IN  /\ key = "Delete" => Room
            /\ CtrlCall("event", NoneValue,
                        CASE key = "Delete" -> ModelRemoveSelectedPaths(Cur, ids)
                          [] key = "z" /\ ctrl_key -> ModelUndo(Cur)
                          [] key = "y" /\ ctrl_key -> ModelRedo(Cur)
                          [] OTHER -> Cur,
                        tool, offset, active_handler)

OnWheel ==
    \E delta \in WheelDeltas :
        /\ ModelScroll(offset, CoordNeg(delta)) \in CtrlOffsets
        /\ CtrlCall("event", NoneValue, Cur,
                    tool, ModelScroll(offset, CoordNeg(delta)), active_handler)

\* the event has left the document r.m, the offset r.offset and the handler r.h
Handled(r) ==
    /\ r.offset \in CtrlOffsets
    /\ CtrlCall("event", NoneValue, r.m, tool, r.offset, r.h)

OnPointerDown ==
    \E button \in Buttons, coord \in CtrlCoords :
        /\ button = "Left" => CoordAt(offset, coord) \in BoardCoords
        /\ Handled(PointerDown(Cur, tool, offset, active_handler, button, coord))

OnPointerMove ==
    \E coord \in CtrlCoords :
        /\ HandlerKind(active_handler) # "Scroll" => CoordAt(offset, coord) \in BoardCoords
        /\ HandlerKind(active_handler) = "Draw" => Len(active_handler.coords) < MaxDraw
        /\ Handled(PointerMove(Cur, offset, active_handler, coord))

\* Handler::finish of the taken handler; the hash sets are iterated in any order and
\* PathId::gen() returns an id not in use
OnPointerUp ==
    \/ /\ HandlerKind(active_handler) \in {"None", "Scroll", "Select"}
       /\ CtrlCall("on_pointer_up", active_handler, Cur, tool, offset, NoneValue)
    \/ /\ HandlerKind(active_handler) = "Shift"
       /\ Room
       /\ \E ids \in OrdersOf(active_handler.shifting_path_ids) :
            CtrlCall("on_pointer_up", active_handler, ShiftFinish(active_handler, Cur, ids),
                     tool, offset, NoneValue)
    \/ /\ HandlerKind(active_handler) = "Draw"
       /\ Room
       /\ \E id \in PathIds \ UsedIds :
            CtrlCall("on_pointer_up", active_handler, DrawFinish(active_handler, Cur, id),
                     tool, offset, NoneValue)
    \/ /\ HandlerKind(active_handler) = "Erase"
       /\ Room
       /\ \E ids \in OrdersOf(active_handler.removing_path_ids) :
            CtrlCall("on_pointer_up", active_handler, EraseFinish(active_handler, Cur, ids),
                     tool, offset, NoneValue)

NextCtrl ==
    \/ CtrlSetTool
    \/ CtrlClearPaths
    \/ OnKeyDown
    \/ OnWheel
    \/ OnPointerDown
    \/ OnPointerMove
    \/ OnPointerUp

SpecCtrl == Init /\ [][NextCtrl]_vars

\* the controller under a user who finishes a gesture before doing anything else: between
\* pointer-down and pointer-up only pointer moves arrive
NoGesture == active_handler = NoneValue

NextGesture ==
    \/ NoGesture /\ CtrlSetTool
    \/ NoGesture /\ CtrlClearPaths
    \/ NoGesture /\ OnKeyDown
    \/ NoGesture /\ OnWheel
    \/ NoGesture /\ OnPointerDown
    \/ OnPointerMove
    \/ OnPointerUp

SpecGesture == Init /\ [][NextGesture]_vars

(***************************************************************************)
(* Recorder (model/recorder.rs) and Model::commit: the calls of Model      *)
(* with the marks they leave on the recorded fields, and commit, which      *)
(* saves the marked persisted fields and resolves every mark. The           *)
(* controller commits at the end of every event (DeferCommit); here commit  *)
(* may come after any number of calls.                                      *)
(***************************************************************************)
\* RecorderUpdate that assigns the result of f to the mark
RecorderUpdate_Assign(u, changed) == changed

\* the mark of a Recorder, u being the mark before: after get_mut, after update(f) with
\* the result of f, and after resolve
RecorderGetMut(u) == TRUE

RecorderUpdate(u, changed) == u \/ changed

RecorderResolve(u) == FALSE

\* one access to a recorded field
GetMut(f) == [field |-> f, call |-> "get_mut", changed |-> TRUE]

Update(f, changed) == [field |-> f, call |-> "update", changed |-> changed]

\* the marks u after the accesses accs, from the i-th on
RECURSIVE Marked(_, _, _)
Marked(u, accs, i) ==
    IF i > Len(accs) THEN u
    ELSE Marked([u EXCEPT ![accs[i].field] =
                    IF accs[i].call = "get_mut" THEN RecorderGetMut(@)
                    ELSE RecorderUpdate(@, accs[i].changed)],
                accs, i + 1)

\* the accesses of insert_paths: update for the reserve, which returns false, then
\* get_mut for each path
AccessesOfInsertPaths(ps) == <<Update("paths", FALSE)>> \o [i \in DOMAIN ps |-> GetMut("paths")]

AccessesOfShiftPaths(ids) == [i \in DOMAIN ids |-> GetMut("paths")]

\* the accesses of remove_paths in the document m: for each id an update of the selected
\* set and of the hidden set, true when the id was in it, and get_mut of the paths
AccessesOfRemovePaths(m, ids) ==
    [k \in 1..(3 * Len(ids)) |->
        CASE (k - 1) % 3 = 0 ->
                Update("selected_path_ids", ids[((k - 1) \div 3) + 1] \in m.selected_path_ids)
          [] (k - 1) % 3 = 1 ->
                Update("hidden_path_ids", ids[((k - 1) \div 3) + 1] \in m.hidden_path_ids)
          [] OTHER -> GetMut("paths")]

\* mem::take(get_mut()), remove_paths on the emptied selection, get_mut to restore
AccessesOfRemoveSelectedPaths(m, ids) ==
    IF m.selected_path_ids = {} THEN <<>>
    ELSE <<GetMut("selected_path_ids")>>
            \o AccessesOfRemovePaths([m EXCEPT !.selected_path_ids = {}], ids)
            \o <<GetMut("selected_path_ids")>>

AccessesOfClearPaths(m) ==
    IF DOMAIN m.paths = {} THEN <<>>
    ELSE <<GetMut("paths"), GetMut("selected_path_ids"), GetMut("hidden_path_ids")>>

\* the update of select_paths_with returns whether the set has grown
AccessesOfSelectPathsWith(m, m1) ==
    <<Update("selected_path_ids", m1.selected_path_ids # m.selected_path_ids)>>

AccessesOfRollback(m, com) ==
    CASE com.kind = "Insert" -> AccessesOfRemovePaths(m, com.path_ids)
      [] com.kind = "Shift" -> AccessesOfShiftPaths(com.path_ids)
      [] com.kind = "Remove" -> AccessesOfInsertPaths(com.paths)

\* undo and redo, stack being the stack they pop
AccessesOfUndo(m, stack) ==
    IF stack = <<>> THEN <<>> ELSE AccessesOfRollback(m, Top(stack))

\* set_tool: get_mut of the tool, then unselect_all_paths for any tool but the selector
AccessesOfSetTool(m, t) ==
    <<GetMut("tool")>>
        \o (IF t # "Selector" /\ m.selected_path_ids # {}
            THEN <<GetMut("selected_path_ids")>> ELSE <<>>)

\* serde of the paths: a RenderablePath is written as its Path (the cached bounding
\* rectangle is skipped) and read through RenderablePath::new
SerializePaths(ps) == [id \in DOMAIN ps |-> ps[id].path]

DeserializePaths(data) == [id \in DOMAIN data |-> RenderablePathNew(data[id])]

\* what save() would write of each persisted field now
Persisted ==
    [paths |-> SerializePaths(paths), offset |-> offset, tool |-> tool,
     pen_color |-> pen_color]

\* Model::save: each persisted field is written when it is marked
Save(st, u, values) == [f \in PersistedFields |-> IF u[f] THEN values[f] ELSE st[f]]

\* a call of Model that took the document to m, the tool to t, the offset to off and the
\* pen colour to c through the accesses accs; the calls are not told apart by name
RecorderCall(o, m, t, off, c, accs) ==
    /\ fault = "none"
    /\ paths' = m.paths
    /\ tiling' = m.tiling
    /\ history' = m.history
    /\ selected_path_ids' = m.selected_path_ids
    /\ hidden_path_ids' = m.hidden_path_ids
    /\ fault' = m.fault
    /\ tool' = t
    /\ offset' = off
    /\ pen_color' = c
    /\ is_updated' = Marked(is_updated, accs, 1)
    /\ op' = "call"
    /\ UNCHANGED <<active_handler, pre, storage>>

DocumentCall(o, m, accs) == RecorderCall(o, m, tool, offset, pen_color, accs)

Colors == {"Black", "Red"}

\* one path is enough to follow the marks: its id is generated once
RecInsertPaths ==
    \E id \in {1} \ UsedIds :
        /\ Room
        /\ DocumentCall("insert_paths", ModelInsertPaths(Cur, <<<<id, InputPath(id)>>>>),
                        AccessesOfInsertPaths(<<<<id, InputPath(id)>>>>))

RecShiftPaths ==
    \E ids \in SeqsOver(DOMAIN paths) \ {<<>>}, delta \in InputDeltas :
        /\ Room
        /\ DocumentCall("shift_paths", ModelShiftPaths(Cur, ids, delta),
                        AccessesOfShiftPaths(ids))

RecRemovePaths ==
    \E ids \in SeqsOver(DOMAIN paths) \ {<<>>} :
        /\ Room
        /\ DocumentCall("remove_paths", ModelRemovePaths(Cur, ids),
                        AccessesOfRemovePaths(Cur, ids))

RecRemoveSelectedPaths ==
    \E ids \in OrdersOf(selected_path_ids) :
        /\ Room
        /\ DocumentCall("remove_selected_paths", ModelRemoveSelectedPaths(Cur, ids),
                        AccessesOfRemoveSelectedPaths(Cur, ids))

RecClearPaths ==
    \E ids \in OrdersOf(DOMAIN paths) :
        /\ Room
        /\ DocumentCall("clear_paths", ModelClearPaths(Cur, ids), AccessesOfClearPaths(Cur))

RecSelectPathsWith ==
    \E rect \in InputRects :
        DocumentCall("select_paths_with", ModelSelectPathsWith(Cur, rect, rect),
                     AccessesOfSelectPathsWith(Cur, ModelSelectPathsWith(Cur, rect, rect)))

RecUndo ==
    DocumentCall("undo", ModelUndo(Cur), AccessesOfUndo(Cur, history.undo_stack))

RecRedo ==
    DocumentCall("redo", ModelRedo(Cur), AccessesOfUndo(Cur, history.redo_stack))

RecScroll ==
    \E delta \in WheelDeltas :
        /\ ModelScroll(offset, delta) \in CtrlOffsets
        /\ RecorderCall("scroll", Cur, tool, ModelScroll(offset, delta), pen_color,
                        <<GetMut("offset")>>)

RecSetTool ==
    \E t \in Tools :
        RecorderCall("set_tool", ModelSetTool(Cur, t), t, offset, pen_color,
                     AccessesOfSetTool(Cur, t))

RecSetPenColor ==
    \E color \in Colors :
        RecorderCall("set_pen_color", Cur, tool, offset, color, <<GetMut("pen_color")>>)

\* Model::commit: save(), then resolve() of every recorded field
Commit ==
    /\ fault = "none"
    /\ storage' = Save(storage, is_updated, Persisted)
    /\ is_updated' = [f \in RecorderFields |-> RecorderResolve(is_updated[f])]
    /\ op' = "commit"
    /\ UNCHANGED <<paths, tiling, history, selected_path_ids, hidden_path_ids, tool, offset,
                   active_handler, fault, pre, pen_color>>

NextRecorder ==
    \/ RecInsertPaths
    \/ RecShiftPaths
    \/ RecRemovePaths
    \/ RecRemoveSelectedPaths
    \/ RecClearPaths
    \/ RecSelectPathsWith
    \/ RecUndo
    \/ RecRedo
    \/ RecScroll
    \/ RecSetTool
    \/ RecSetPenColor
    \/ Commit

SpecRecorder == Init /\ [][NextRecorder]_vars

(***************************************************************************)
(* The selection drag over a document with paths: the marquee is dragged   *)
(* between points before, on and beyond the corners of the bounding boxes  *)
(* of the paths, so that it grows, shrinks and flips across its start with *)
(* a path on its boundary.                                                 *)
(***************************************************************************)
DragCoords ==
    {Coordinate(-10, -10), Coordinate(0, 0), Coordinate(10, 0), Coordinate(20, 10),
     Coordinate(140, 260)}

\* a left pointer-down with the selector beside every selected path
DragPointerDown ==
    \E coord \in DragCoords :
        /\ NoGesture
        /\ tool = "Selector"
        /\ \A id \in selected_path_ids :
                ~RectContainsCoord(paths[id].bounding_rect, CoordAt(offset, coord))
        /\ Handled(PointerDown(Cur, tool, offset, active_handler, "Left", coord))

DragPointerMove ==
    \E coord \in DragCoords : Handled(PointerMove(Cur, offset, active_handler, coord))

DragPointerUp ==
    /\ HandlerKind(active_handler) = "Select"
    /\ CtrlCall("on_pointer_up", active_handler, Cur, tool, offset, NoneValue)

NextDrag ==
    \/ NoGesture /\ InsertPaths
    \/ NoGesture /\ CtrlSetTool
    \/ DragPointerDown
    \/ DragPointerMove
    \/ DragPointerUp

SpecDrag == Init /\ [][NextDrag]_vars

(***************************************************************************)
(* Properties of the history (checked under SpecHistory).                  *)
(***************************************************************************)
PreHistory == pre.s1.history

\* C1: push(C) while the history is Idle appends C to the top of undo_stack and leaves
\* redo_stack empty, whatever it held before; the state stays Idle.
C1_PushIdle ==
    (op = "push" /\ PreHistory.state = "None") =>
        /\ history.undo_stack = Append(PreHistory.undo_stack, pre.arg)
        /\ history.redo_stack = <<>>
        /\ history.state = "None"

\* a push in Idle that found commands on the redo stack
C1_Witness ==
    /\ op = "push"
    /\ PreHistory.state = "None"
    /\ PreHistory.redo_stack # <<>>
    /\ PreHistory.undo_stack # <<>>

\* C2: push(C) while Undoing puts C on top of redo_stack, leaves undo_stack as it was,
\* clears neither stack and returns to Idle; while Redoing it puts C on top of undo_stack,
\* leaves redo_stack as it was and returns to Idle.
C2_PushRollback ==
    /\ (op = "push" /\ PreHistory.state = "Undoing") =>
            /\ history.redo_stack = Append(PreHistory.redo_stack, pre.arg)
            /\ history.undo_stack = PreHistory.undo_stack
            /\ history.state = "None"
    /\ (op = "push" /\ PreHistory.state = "Redoing") =>
            /\ history.undo_stack = Append(PreHistory.undo_stack, pre.arg)
            /\ history.redo_stack = PreHistory.redo_stack
            /\ history.state = "None"

\* a push while Undoing with commands on both stacks
C2_Witness ==
    /\ op = "push"
    /\ PreHistory.state = "Undoing"
    /\ PreHistory.undo_stack # <<>>
    /\ PreHistory.redo_stack # <<>>

\* a push while Redoing with commands on both stacks
C2_WitnessRedoing ==
    /\ op = "push"
    /\ PreHistory.state = "Redoing"
    /\ PreHistory.undo_stack # <<>>
    /\ PreHistory.redo_stack # <<>>

\* C3: start_undo() in Idle with a non-empty undo_stack pops and returns its top command
\* and enters Undoing; with an empty undo_stack it returns nothing and changes neither the
\* state nor a stack. start_redo() does the same on redo_stack, entering Redoing.
C3_Start ==
    /\ (op = "start_undo" /\ PreHistory.state = "None") =>
            IF PreHistory.undo_stack = <<>>
            THEN pre.ret = NoneValue /\ history = PreHistory
            ELSE /\ pre.ret = PreHistory.undo_stack[Len(PreHistory.undo_stack)]
                 /\ Append(history.undo_stack, pre.ret) = PreHistory.undo_stack
                 /\ history.redo_stack = PreHistory.redo_stack
                 /\ history.state = "Undoing"
    /\ (op = "start_redo" /\ PreHistory.state = "None") =>
            IF PreHistory.redo_stack = <<>>
            THEN pre.ret = NoneValue /\ history = PreHistory
            ELSE /\ pre.ret = PreHistory.redo_stack[Len(PreHistory.redo_stack)]
                 /\ Append(history.redo_stack, pre.ret) = PreHistory.redo_stack
                 /\ history.undo_stack = PreHistory.undo_stack
                 /\ history.state = "Redoing"

\* a start_undo in Idle that popped one of two commands
C3_Witness ==
    /\ op = "start_undo"
    /\ PreHistory.state = "None"
    /\ Len(PreHistory.undo_stack) = 2
    /\ history.state = "Undoing"

\* a start_undo in Idle on an empty undo stack, with commands on the redo stack
C3_WitnessEmpty ==
    /\ op = "start_undo"
    /\ PreHistory.state = "None"
    /\ PreHistory.undo_stack = <<>>
    /\ PreHistory.redo_stack # <<>>

\* a start_redo in Idle that popped a command
C3_WitnessRedo ==
    /\ op = "start_redo"
    /\ PreHistory.state = "None"
    /\ PreHistory.redo_stack # <<>>
    /\ history.state = "Redoing"

\* C4: start_undo() or start_redo() while the state is Undoing or Redoing is a fault that
\* aborts the call: no second command is popped, nothing is returned.
C4_StartFault ==
    (op \in {"start_undo", "start_redo"} /\ PreHistory.state # "None") =>
        /\ fault = "previous operation not finished"
        /\ history = PreHistory
        /\ pre.ret = NoneValue

\* a start_undo while Undoing, with a further command it could have popped
C4_Witness ==
    /\ op = "start_undo"
    /\ PreHistory.state = "Undoing"
    /\ PreHistory.undo_stack # <<>>
    /\ fault # "none"

(***************************************************************************)
(* Properties of the document (checked under Spec).                        *)
(***************************************************************************)
\* the path entries of an index: what each tile holds for each path, and the reverse
\* lookup; a tile whose map a removal has emptied holds no entry
TilingEntries(t) ==
    [tiles |-> {<<tile_id, path_id, t.tiles[tile_id][path_id]>> :
                    <<tile_id, path_id>> \in
                        {tp \in (DOMAIN t.tiles) \X PathIds : tp[2] \in DOMAIN t.tiles[tp[1]]}},
     tile_ids |-> t.tile_ids]

\* C5: when Model.undo() pops command C, the command on top of redo_stack afterwards is
\* C's inverse (Insert(ids): a Remove of exactly those ids with the paths they had;
\* Shift(ids, delta): Shift(ids, -delta); Remove(snapshots): Insert of the snapshot ids),
\* and the history is Idle.
C5_UndoInverse ==
    (op = "undo" /\ PreHistory.undo_stack # <<>>) =>
        /\ fault = "none"
        /\ history.state = "None"
        /\ history.redo_stack # <<>>
        /\ LET C == Top(PreHistory.undo_stack)
               R == Top(history.redo_stack)
           IN  CASE C.kind = "Insert" ->
                        R = CommandRemove([i \in DOMAIN C.path_ids |->
                                <<C.path_ids[i], pre.s1.paths[C.path_ids[i]]>>])
                 [] C.kind = "Shift" ->
                        R = CommandShift(C.path_ids, Coordinate(0 - C.delta.x, 0 - C.delta.y))
                 [] C.kind = "Remove" ->
                        R = CommandInsert([i \in DOMAIN C.paths |-> C.paths[i][1]])

\* an undo that popped a Shift of two paths
C5_Witness ==
    /\ op = "undo"
    /\ PreHistory.undo_stack # <<>>
    /\ Top(PreHistory.undo_stack).kind = "Shift"
    /\ Len(Top(PreHistory.undo_stack).path_ids) = 2

\* an undo that popped an Insert of two paths
C5_WitnessInsert ==
    /\ op = "undo"
    /\ PreHistory.undo_stack # <<>>
    /\ Top(PreHistory.undo_stack).kind = "Insert"
    /\ Len(Top(PreHistory.undo_stack).path_ids) = 2

\* an undo that popped a Remove of two paths
C5_WitnessRemove ==
    /\ op = "undo"
    /\ PreHistory.undo_stack # <<>>
    /\ Top(PreHistory.undo_stack).kind = "Remove"
    /\ Len(Top(PreHistory.undo_stack).paths) = 2

\* the last call was an undo, and the call before it an edit that recorded a command
EditUndone ==
    /\ op = "undo"
    /\ pre.prev \in Edits
    /\ Len(pre.s1.history.undo_stack) = Len(pre.s2.history.undo_stack) + 1

\* the ids the edit before the last call removed
EditRemoved == DOMAIN pre.s2.paths \ DOMAIN pre.s1.paths

\* C6 as stated: an edit followed by undo returns the path collection, the tile index, the
\* selected set and the hidden set to what they were before the edit.
C6_Original ==
    EditUndone =>
        /\ paths = pre.s2.paths
        /\ tiling = pre.s2.tiling
        /\ selected_path_ids = pre.s2.selected_path_ids
        /\ hidden_path_ids = pre.s2.hidden_path_ids

\* C6 as amended: an edit followed by undo returns the path collection to what it was and
\* the tile index to the same path entries (tiles the edit first occupied stay, empty);
\* the selected and hidden sets are what they were, less the ids the edit removed.
C6_EditUndo ==
    EditUndone =>
        /\ fault = "none"
        /\ paths = pre.s2.paths
        /\ TilingEntries(tiling) = TilingEntries(pre.s2.tiling)
        /\ selected_path_ids = pre.s2.selected_path_ids \ EditRemoved
        /\ hidden_path_ids = pre.s2.hidden_path_ids \ EditRemoved

\* a removal of a selected and a hidden path, undone
C6_Witness ==
    /\ EditUndone
    /\ pre.prev = "remove_paths"
    /\ EditRemoved \cap pre.s2.selected_path_ids # {}
    /\ EditRemoved \cap pre.s2.hidden_path_ids # {}

\* a shift of two paths, undone
C6_WitnessShift ==
    /\ EditUndone
    /\ pre.prev = "shift_paths"
    /\ Len(Top(pre.s1.history.undo_stack).path_ids) = 2

\* kind, ids and delta of a command
Shape(com) ==
    CASE com.kind = "Insert" -> [kind |-> "Insert", ids |-> com.path_ids]
      [] com.kind = "Shift" -> [kind |-> "Shift", ids |-> com.path_ids, delta |-> com.delta]
      [] com.kind = "Remove" -> [kind |-> "Remove", ids |-> Ids(com.paths)]

Shapes(stack) == [i \in DOMAIN stack |-> Shape(stack[i])]

\* the last two calls were undo, then redo
UndoRedone == op = "redo" /\ pre.prev = "undo"

RoundTrip ==
    /\ fault = "none"
    /\ paths = pre.s2.paths
    /\ Shapes(history.undo_stack) = Shapes(pre.s2.history.undo_stack)
    /\ Shapes(history.redo_stack) = Shapes(pre.s2.history.redo_stack)

\* C7 as stated: after Model.undo() then Model.redo(), the path collection and both
\* history stacks (kinds, ids, deltas, order) are what they were before the undo.
C7_Original == UndoRedone => RoundTrip

\* C7 as amended: the same, for an undo that found a command on the undo stack.
C7_UndoRedo == (UndoRedone /\ pre.s2.history.undo_stack # <<>>) => RoundTrip

\* undo then redo, with commands on both stacks before the undo
C7_Witness ==
    /\ UndoRedone
    /\ pre.s2.history.undo_stack # <<>>
    /\ pre.s2.history.redo_stack # <<>>
    /\ DOMAIN paths # {}

\* C9: the tile index holds exactly the path entries that Tiling::from_iter builds from
\* the current path collection, in whatever order it iterates the collection.
C9_IndexIsFresh ==
    \A ids \in OrdersOf(DOMAIN paths) :
        TilingEntries(tiling) = TilingEntries(TilingFromIter(paths, ids, 1))

\* two paths in the document after a shift was undone, with a tile the shift left empty
C9_Witness ==
    /\ op = "undo"
    /\ pre.prev = "shift_paths"
    /\ Cardinality(DOMAIN paths) = 2
    /\ \E tile_id \in DOMAIN tiling.tiles : DOMAIN tiling.tiles[tile_id] = {}

\* C20: after any sequence of Model operations, selected_path_ids and hidden_path_ids are
\* subsets of the key set of the path collection: neither references a removed path id.
C20_Subsets ==
    /\ selected_path_ids \subseteq DOMAIN paths
    /\ hidden_path_ids \subseteq DOMAIN paths

\* a selected and hidden path was removed while another path stays selected
C20_Witness ==
    /\ op = "remove_paths"
    /\ \E id \in pre.s1.selected_path_ids \cap pre.s1.hidden_path_ids : id \notin DOMAIN paths
    /\ selected_path_ids # {}

\* the undo of an insert took a selected path away
C20_WitnessUndo ==
    /\ op = "undo"
    /\ \E id \in pre.s1.selected_path_ids : id \notin DOMAIN paths

\* clear_paths on a document with a hidden path
C20_WitnessClear ==
    /\ op = "clear_paths"
    /\ pre.s1.hidden_path_ids # {}
    /\ paths = EmptyMap

(***************************************************************************)
(* Properties of the tile index (checked under SpecTiling).                *)
(***************************************************************************)
TilesOf(t) == DOMAIN t.tiles \cup UNION {t.tile_ids[p] : p \in DOMAIN t.tile_ids}

\* C8: for every path P and tile T, P is a key of the per-tile map of T if and only if T
\* is in the reverse-lookup list of P.
C8_TwoWay ==
    \A path_id \in PathIds, tile_id \in TilesOf(tiling) :
        (tile_id \in DOMAIN tiling.tiles /\ path_id \in DOMAIN tiling.tiles[tile_id])
            <=> (path_id \in DOMAIN tiling.tile_ids /\ tile_id \in tiling.tile_ids[path_id])

\* a path of several tiles is indexed, after a removal that emptied a tile
C8_Witness ==
    /\ op = "remove_path"
    /\ \E path_id \in DOMAIN tiling.tile_ids : Cardinality(tiling.tile_ids[path_id]) >= 3
    /\ \E tile_id \in DOMAIN tiling.tiles : DOMAIN tiling.tiles[tile_id] = {}

\* the last two calls were insert_path and remove_path of the same path
InsertRemoved ==
    /\ op = "remove_path"
    /\ pre.prev = "insert_path"
    /\ fault = "none"
    /\ pre.arg.path_id \notin DOMAIN pre.s2.tiling.tile_ids
    /\ pre.arg.path_id \in DOMAIN pre.s1.tiling.tile_ids

\* C10 as stated: insert_path then remove_path of a path returns the index to its state
\* before the insert.
C10_Original == InsertRemoved => tiling = pre.s2.tiling

\* C10 as amended: after insert_path then remove_path of a path, no tile holds an entry
\* of the path, the reverse lookup is what it was, and every tile that existed before
\* holds what it held; the tiles the path was first to occupy stay, with an empty map.
C10_RoundTrip ==
    InsertRemoved =>
        /\ tiling.tile_ids = pre.s2.tiling.tile_ids
        /\ DOMAIN pre.s2.tiling.tiles \subseteq DOMAIN tiling.tiles
        /\ \A tile_id \in DOMAIN tiling.tiles :
                IF tile_id \in DOMAIN pre.s2.tiling.tiles
                THEN tiling.tiles[tile_id] = pre.s2.tiling.tiles[tile_id]
                ELSE tiling.tiles[tile_id] = EmptyMap

\* a round trip next to another indexed path, sharing a tile with it and leaving a new one
C10_Witness ==
    /\ InsertRemoved
    /\ DOMAIN tiling.tile_ids # {}
    /\ DOMAIN tiling.tiles # DOMAIN pre.s2.tiling.tiles
    /\ \E tile_id \in pre.s1.tiling.tile_ids[pre.arg.path_id] :
            /\ tile_id \in DOMAIN tiling.tiles
            /\ DOMAIN tiling.tiles[tile_id] # {}

\* query rectangles: the whole board, one tile, a tile corner, negative tiles, and a strip
\* inside the bounding box of a segment that the segment misses
TilingQueryRects ==
    { RectNew(Coordinate(-200, -200), Coordinate(400, 400)),
      RectNew(Coordinate(0, 0), Coordinate(127, 127)),
      RectNew(Coordinate(128, 128), Coordinate(128, 128)),
      RectNew(Coordinate(-129, -129), Coordinate(-100, -20)),
      RectNew(Coordinate(128, -3), Coordinate(300, 0)),
      RectNew(Coordinate(100, 200), Coordinate(127, 255)) }

\* the path ids bounding_tile_items(rect) yields
Yielded(rect) ==
    LET items == BoundingTileItemsFrom(tiling, BoundingTileIdsOfRect(rect), 1)
    IN  {items[i].path_id : i \in DOMAIN items}

\* some segment of the path meets the rectangle
PathMeets(path_id, rect) ==
    LET lines == Lines(paths[path_id].path.coords)
    IN  \E i \in DOMAIN lines : LineIntersectsRect(lines[i], rect)

\* C11: for every indexed path P and every query rectangle R, if any line segment of P
\* intersects R then bounding_tile_items(R) yields P at least once; this includes paths and
\* rectangles at negative coordinates and segments on a tile boundary.
C11_QueryComplete ==
    \A path_id \in DOMAIN tiling.tile_ids, rect \in TilingQueryRects :
        PathMeets(path_id, rect) => path_id \in Yielded(rect)

\* a path in negative tiles met by a query at negative coordinates, next to a path along a
\* tile boundary met by a query that touches the boundary
C11_Witness ==
    /\ DOMAIN tiling.tile_ids = {1, 2}
    /\ paths[1].path.coords = <<Coordinate(-130, -1), Coordinate(-1, -130)>>
    /\ PathMeets(1, RectNew(Coordinate(-129, -129), Coordinate(-100, -20)))
    /\ paths[2].path.coords = <<Coordinate(128, 0), Coordinate(128, 128)>>
    /\ PathMeets(2, RectNew(Coordinate(128, 128), Coordinate(128, 128)))
    /\ PathMeets(2, RectNew(Coordinate(128, -3), Coordinate(300, 0)))

\* the tiles in the grid range of the bounding box of a segment
InGridRange(tile_id, line) ==
    /\ MinOf(line.start.x, line.end.x) <= tile_id.x * TILE_LEN + (TILE_LEN - 1)
    /\ tile_id.x * TILE_LEN <= MaxOf(line.start.x, line.end.x)
    /\ MinOf(line.start.y, line.end.y) <= tile_id.y * TILE_LEN + (TILE_LEN - 1)
    /\ tile_id.y * TILE_LEN <= MaxOf(line.start.y, line.end.y)

\* every tile around the points of the inputs
NearTiles == {Coordinate(x, y) : x, y \in -3..3}

\* C12: insert_path registers each line segment of the path under exactly the tiles that
\* lie in the grid range of the segment's bounding box and whose rectangle the segment
\* intersects; a tile the bounding box covers and the segment does not cross holds no
\* entry for it.
C12_ExactTiles ==
    op = "insert_path" =>
        \A tile_id \in NearTiles \cup DOMAIN tiling.tiles :
            LET want == SelectSeq(Lines(pre.arg.coords),
                            LAMBDA line : /\ InGridRange(tile_id, line)
                                          /\ LineIntersectsRect(line, TileRect(tile_id)))
                have == GetOrDefault(GetOrDefault(tiling.tiles, tile_id), pre.arg.path_id)
            IN  /\ have = want
                /\ want = <<>> =>
                        pre.arg.path_id \notin DOMAIN GetOrDefault(tiling.tiles, tile_id)

\* the inserted path has a segment whose bounding box covers tile (0, 1), which the
\* segment does not cross: the tile holds no entry of the path
C12_Witness ==
    /\ op = "insert_path"
    /\ pre.arg.coords = <<Coordinate(-5, 100), Coordinate(120, 0), Coordinate(136, 250)>>
    /\ InGridRange(Coordinate(0, 1), LineNew(Coordinate(120, 0), Coordinate(136, 250)))
    /\ pre.arg.path_id \notin DOMAIN GetOrDefault(tiling.tiles, Coordinate(0, 1))
    /\ pre.arg.path_id \in DOMAIN GetOrDefault(tiling.tiles, Coordinate(1, 1))

\* the tiles that a path occupies and that intersect the query
OccupiedTiles(path_id, rect) ==
    {tile_id \in NearTiles \cup DOMAIN tiling.tiles :
        /\ path_id \in DOMAIN GetOrDefault(tiling.tiles, tile_id)
        /\ RectIntersectsRect(rect, TileRect(tile_id))}

\* the items bounding_tile_items(rect) yields
ItemsOf(rect) == BoundingTileItemsFrom(tiling, BoundingTileIdsOfRect(rect), 1)

\* the path is yielded once for each of the tiles, and for no other
OncePerTile(path_id, rect, tile_ids) ==
    /\ Cardinality({i \in DOMAIN ItemsOf(rect) : ItemsOf(rect)[i].path_id = path_id})
            = Cardinality(tile_ids)
    /\ \A tile_id \in tile_ids :
            Cardinality({i \in DOMAIN ItemsOf(rect) :
                /\ ItemsOf(rect)[i].path_id = path_id
                /\ ItemsOf(rect)[i].tile_id = tile_id}) = 1

\* each yielded slice is the list of the path's segments in the tile it comes from
SlicesOfTile(rect) ==
    \A i \in DOMAIN ItemsOf(rect) :
        ItemsOf(rect)[i].lines = tiling.tiles[ItemsOf(rect)[i].tile_id][ItemsOf(rect)[i].path_id]

\* C13 as stated: bounding_tile_items(query) yields a path id exactly once for each tile
\* that the path occupies and that intersects the query (k such tiles: k times, never twice
\* for one tile), and each yielded slice is the list of the path's segments in that tile.
C13_Original ==
    \A rect \in TilingQueryRects :
        /\ \A path_id \in PathIds : OncePerTile(path_id, rect, OccupiedTiles(path_id, rect))
        /\ SlicesOfTile(rect)

\* the occupied tiles in the grid range of the query: those whose points
\* [x * TILE_LEN, x * TILE_LEN + TILE_LEN - 1] on each axis the query overlaps
OccupiedTilesInRange(path_id, rect) ==
    {tile_id \in OccupiedTiles(path_id, rect) :
        InGridRange(tile_id, LineNew(rect.min, rect.max))}

\* C13 as amended: bounding_tile_items(query) yields a path id exactly once for each tile
\* that the path occupies, that lies in the grid range of the query's bounding box and
\* that intersects the query; a tile that the query only touches along the tile's upper
\* edge is not visited. Each yielded slice is the list of the path's segments in that tile.
C13_OncePerTile ==
    \A rect \in TilingQueryRects :
        /\ \A path_id \in PathIds :
                OncePerTile(path_id, rect, OccupiedTilesInRange(path_id, rect))
        /\ SlicesOfTile(rect)

\* after a removal left a tile empty, a path occupies three tiles of the board-wide query
\* and a tile that the one-tile query touches outside its grid range
C13_Witness ==
    /\ op = "remove_path"
    /\ \E tile_id \in DOMAIN tiling.tiles : DOMAIN tiling.tiles[tile_id] = {}
    /\ \E path_id \in DOMAIN tiling.tile_ids :
            /\ Cardinality(OccupiedTilesInRange(path_id,
                    RectNew(Coordinate(-200, -200), Coordinate(400, 400)))) = 3
            /\ OccupiedTilesInRange(path_id, RectNew(Coordinate(0, 0), Coordinate(127, 127)))
                    # OccupiedTiles(path_id, RectNew(Coordinate(0, 0), Coordinate(127, 127)))

(***************************************************************************)
(* Properties of rect_diff (checked under SpecRectDiff).                   *)
(***************************************************************************)
\* the region of a rectangle whose corners are on the grid of RectDiffValues: its grid
\* cells, each named by its lower corner
Cells(rect) ==
    {c \in RectDiffCoords :
        /\ rect.min.x <= c.x /\ c.x < rect.max.x
        /\ rect.min.y <= c.y /\ c.y < rect.max.y}

CellsOfAll(rects) == UNION {Cells(rects[i]) : i \in DOMAIN rects}

OldRect == RectNew(pre.arg.origin, pre.arg.old_diag)

NewRect == RectNew(pre.arg.origin, pre.arg.new_diag)

\* the arguments as rect_diff normalises them, and the returned rectangles in that frame
FlipX == pre.arg.old_diag.x < pre.arg.origin.x

FlipY == pre.arg.old_diag.y < pre.arg.origin.y

Normal(c) == Coordinate(IF FlipX THEN 0 - c.x ELSE c.x, IF FlipY THEN 0 - c.y ELSE c.y)

NormalRects(rects) == [i \in DOMAIN rects |-> RectNew(Normal(rects[i].min), Normal(rects[i].max))]

NOrigin == Normal(pre.arg.origin)

NOld == Normal(pre.arg.old_diag)

NNew == Normal(pre.arg.new_diag)

Degenerate == NNew.x <= NOrigin.x \/ NNew.y <= NOrigin.y

\* C15: old_rect minus the union of removed equals old_rect intersect new_rect, which
\* equals new_rect minus the union of added (as regions of the plane).
C15_Reconstruction ==
    op = "rect_diff" =>
        /\ Cells(OldRect) \ CellsOfAll(pre.ret.removed) = Cells(OldRect) \cap Cells(NewRect)
        /\ Cells(NewRect) \ CellsOfAll(pre.ret.added) = Cells(OldRect) \cap Cells(NewRect)

\* a drag flipped on x that shrinks on x and grows on y, with two regions in common
C15_Witness ==
    /\ op = "rect_diff"
    /\ FlipX /\ ~FlipY /\ ~Degenerate
    /\ Len(pre.ret.removed) = 1 /\ Len(pre.ret.added) = 1
    /\ Cardinality(Cells(OldRect) \cap Cells(NewRect)) = 2

\* a drag that passes the origin on y, from a rectangle of four cells
C15_WitnessWhole ==
    /\ op = "rect_diff"
    /\ Degenerate
    /\ Cardinality(Cells(OldRect)) = 4
    /\ Cells(NewRect) # {}

Disjoint(rects) ==
    \A i, j \in DOMAIN rects : i # j => Cells(rects[i]) \cap Cells(rects[j]) = {}

\* C16: the rectangles of removed are pairwise disjoint and the rectangles of added are
\* pairwise disjoint, also when the rectangle grows or shrinks on both axes at once.
C16_Disjoint ==
    op = "rect_diff" => Disjoint(pre.ret.removed) /\ Disjoint(pre.ret.added)

\* what each axis contributes in the normalised frame, an added X or Y slab reaching to
\* the corner far on the other axis
SlabsTo(far) ==
    [removed |->
        (IF NNew.x < NOld.x
         THEN <<RectNew(Coordinate(NNew.x, NOrigin.y), Coordinate(NOld.x, NOld.y))>>
         ELSE <<>>) \o
        (IF NNew.y < NOld.y
         THEN <<RectNew(Coordinate(NOrigin.x, NNew.y), Coordinate(NOld.x, NOld.y))>>
         ELSE <<>>),
     added |->
        (IF NNew.x > NOld.x
         THEN <<RectNew(Coordinate(NOld.x, NOrigin.y), Coordinate(NNew.x, far.y))>>
         ELSE <<>>) \o
        (IF NNew.y > NOld.y
         THEN <<RectNew(Coordinate(NOrigin.x, NOld.y), Coordinate(far.x, NNew.y))>>
         ELSE <<>>)]

Returned == [removed |-> NormalRects(pre.ret.removed), added |-> NormalRects(pre.ret.added)]

\* C17 as stated: in the non-degenerate case the X axis contributes an added slab
\* [old_diag.x, new_diag.x] or a removed slab [new_diag.x, old_diag.x] across the Y extent
\* origin.y..old_diag.y, or nothing, and the Y axis contributes symmetrically.
C17_Original ==
    (op = "rect_diff" /\ ~Degenerate) => Returned = SlabsTo(NOld)

\* C17 as amended: a removed slab spans the other axis from origin to old_diag, an added
\* slab spans the other axis from origin to new_diag.
C17_Slabs ==
    (op = "rect_diff" /\ ~Degenerate) => Returned = SlabsTo(NNew)

\* a rectangle that grows on x while y changes too, flipped on y
C17_Witness ==
    /\ op = "rect_diff"
    /\ ~Degenerate /\ FlipY
    /\ NNew.x > NOld.x /\ NNew.y < NOld.y
    /\ SlabsTo(NNew) # SlabsTo(NOld)

AtMostTwo == Len(pre.ret.removed) <= 2 /\ Len(pre.ret.added) <= 2

\* the one removed rectangle of a shrink on x alone, or on y alone
DroppedSlab ==
    /\ pre.ret.added = <<>>
    /\ NormalRects(pre.ret.removed) =
            <<IF NNew.x < NOld.x
              THEN RectNew(Coordinate(NNew.x, NOrigin.y), NOld)
              ELSE RectNew(Coordinate(NOrigin.x, NNew.y), NOld)>>

ShrinksOnOneAxis ==
    \/ NOrigin.x <= NNew.x /\ NNew.x < NOld.x /\ NNew.y = NOld.y
    \/ NOrigin.y <= NNew.y /\ NNew.y < NOld.y /\ NNew.x = NOld.x

\* C18 as stated: at most two removed and at most two added rectangles; when the rectangle
\* shrinks on one axis only and the other axis is unchanged, exactly one removed rectangle
\* covering the dropped slab and no added rectangle.
C18_Original ==
    op = "rect_diff" => AtMostTwo /\ (ShrinksOnOneAxis => DroppedSlab)

\* C18 as amended: the same, for a shrink that leaves new_diag strictly beyond origin on
\* both axes (the rectangle keeps an extent on the axis it shrinks on and has one on the
\* axis left unchanged).
C18_Shrink ==
    op = "rect_diff" => AtMostTwo /\ ((ShrinksOnOneAxis /\ ~Degenerate) => DroppedSlab)

\* origin (0,0), old (100,100), new (50,100): removed is x in [50,100], y in [0,100]
C18_Witness ==
    /\ op = "rect_diff"
    /\ pre.arg = [origin |-> Coordinate(0, 0), old_diag |-> Coordinate(100, 100),
                  new_diag |-> Coordinate(50, 100)]
    /\ pre.ret.removed = <<RectNew(Coordinate(50, 0), Coordinate(100, 100))>>
    /\ pre.ret.added = <<>>

\* a shrink on y alone of a rectangle flipped on both axes
C18_WitnessFlipped ==
    /\ op = "rect_diff"
    /\ FlipX /\ FlipY /\ ~Degenerate
    /\ NNew.x = NOld.x /\ NNew.y < NOld.y

\* C19: when, in the normalised frame, new_diag is at or before origin on either axis,
\* removed is exactly the whole old rectangle and added is exactly the whole new rectangle,
\* each a single rectangle in the caller's coordinates.
C19_Whole ==
    (op = "rect_diff" /\ Degenerate) =>
        /\ pre.ret.removed = <<OldRect>>
        /\ pre.ret.added = <<NewRect>>

\* a rectangle flipped on x whose new corner passes the origin on x
C19_Witness ==
    /\ op = "rect_diff"
    /\ FlipX /\ NNew.x < NOrigin.x /\ NNew.y > NOrigin.y
    /\ OldRect.min.x < pre.arg.origin.x
    /\ NewRect.max.x > pre.arg.origin.x

(***************************************************************************)
(* Properties of the controller (checked under SpecCtrl).                  *)
(***************************************************************************)
\* the paths a Remove command on a stack holds: undo or redo hands them to insert_path
HeldPaths(stack) ==
    UNION {IF stack[i].kind = "Remove"
           THEN {stack[i].paths[j][2] : j \in DOMAIN stack[i].paths}
           ELSE {} : i \in DOMAIN stack}

HasSegment(path) == Len(Lines(path.path.coords)) >= 1

\* C14: no path without a line segment reaches Tiling::insert_path, whatever events the
\* controller receives: every id with a reverse-lookup entry is a path of the document
\* with at least one segment, and so is every path a Remove command holds for a later
\* undo or redo to insert again.
C14_NoZeroSegmentPath ==
    /\ \A id \in DOMAIN tiling.tile_ids : id \in DOMAIN paths /\ HasSegment(paths[id])
    /\ \A path \in HeldPaths(history.undo_stack) \cup HeldPaths(history.redo_stack) :
            HasSegment(path)

\* a pen pointer-down followed by pointer-up with no pointer-move has inserted a path:
\* the one point, twice
C14_Witness ==
    /\ op = "on_pointer_up"
    /\ fault = "none"
    /\ HandlerKind(pre.ret) = "Draw"
    /\ Len(pre.ret.coords) = 1
    /\ \E id \in DOMAIN tiling.tile_ids :
            /\ id \in DOMAIN paths
            /\ paths[id].path.coords = <<pre.ret.coords[1], pre.ret.coords[1]>>

(***************************************************************************)
(* Properties of the document operations (checked under Spec).             *)
(***************************************************************************)
\* the bounding box of the points of the path id of the document
PointsBox(id) == CoordsBoundingRect(paths[id].path.coords)

\* some segment of the path id of the document intersects rect
SegmentMeets(id, rect) ==
    \E i \in DOMAIN Lines(paths[id].path.coords) :
        LineIntersectsRect(Lines(paths[id].path.coords)[i], rect)

\* C21: select_paths_with(whole_rect, rect) removes nothing from the selection and adds
\* only paths whose bounding box of points is contained in whole_rect;
\* unselect_paths_with(rect) adds nothing and removes exactly the selected paths that
\* have a segment intersecting rect.
C21_SelectUnselect ==
    /\ op = "select_paths_with" =>
        /\ pre.s1.selected_path_ids \subseteq selected_path_ids
        /\ \A id \in selected_path_ids \ pre.s1.selected_path_ids :
                /\ id \in DOMAIN paths
                /\ RectContainsRect(pre.arg.whole_rect, PointsBox(id))
    /\ op = "unselect_paths_with" =>
        /\ selected_path_ids \subseteq pre.s1.selected_path_ids
        /\ \A id \in pre.s1.selected_path_ids :
                id \notin selected_path_ids <=> SegmentMeets(id, pre.arg.rect)

\* a selection added a path and left out one that intersects whole_rect and is not
\* contained in it
C21_Witness ==
    /\ op = "select_paths_with"
    /\ selected_path_ids # pre.s1.selected_path_ids
    /\ \E id \in DOMAIN paths \ selected_path_ids :
            /\ RectIntersectsRect(pre.arg.whole_rect, PointsBox(id))
            /\ SegmentMeets(id, pre.arg.rect)

\* an unselection removed one selected path and kept another
C21_WitnessUnselect ==
    /\ op = "unselect_paths_with"
    /\ selected_path_ids # {}
    /\ selected_path_ids # pre.s1.selected_path_ids

\* the kind of Command an edit records
KindOf(edit) ==
    CASE edit = "insert_paths" -> "Insert"
      [] edit = "shift_paths" -> "Shift"
      [] OTHER -> "Remove"

\* the ids the last call, an edit, was to affect
Affected ==
    CASE op = "remove_selected_paths" -> pre.s1.selected_path_ids
      [] op = "clear_paths" -> DOMAIN pre.s1.paths
      [] OTHER -> SeqToSet(pre.arg.ids)

\* the last call, an edit, put exactly one Command on the undo stack, of its kind and
\* with the affected ids
OneCommand ==
    /\ Len(history.undo_stack) = Len(PreHistory.undo_stack) + 1
    /\ Pop(history.undo_stack) = PreHistory.undo_stack
    /\ Top(history.undo_stack).kind = KindOf(op)
    /\ ComIds(Top(history.undo_stack)) = Affected
    /\ Len(IF KindOf(op) = "Remove" THEN Top(history.undo_stack).paths
           ELSE Top(history.undo_stack).path_ids) = Cardinality(Affected)
    /\ op = "shift_paths" => Top(history.undo_stack).delta = pre.arg.delta

\* remove_selected_paths with nothing selected, clear_paths with no path
EmptyEdit ==
    \/ op = "remove_selected_paths" /\ pre.s1.selected_path_ids = {}
    \/ op = "clear_paths" /\ DOMAIN pre.s1.paths = {}

\* C22 as stated: every call of insert_paths, shift_paths, remove_paths,
\* remove_selected_paths or clear_paths records exactly one Command of the matching kind
\* that names exactly the ids the call affected.
C22_Original == op \in Edits => OneCommand

\* C22: every call of insert_paths, shift_paths or remove_paths, every remove_selected_paths
\* with a non-empty selection and every clear_paths on a non-empty document records exactly
\* one Command of the matching kind that names exactly the ids the call affected;
\* remove_selected_paths with an empty selection and clear_paths on an empty document
\* record none.
C22_OneCommand ==
    op \in Edits =>
        /\ fault = "none"
        /\ IF EmptyEdit THEN history = PreHistory ELSE OneCommand

\* a remove_selected_paths of two selected paths recorded its Remove command
C22_Witness ==
    /\ op = "remove_selected_paths"
    /\ Cardinality(pre.s1.selected_path_ids) = 2
    /\ Len(Top(history.undo_stack).paths) = 2

\* a clear_paths on an empty document with a command to redo
C22_WitnessEmpty ==
    /\ op = "clear_paths"
    /\ DOMAIN pre.s1.paths = {}
    /\ history.redo_stack # <<>>

\* rect is the tight bounding box of the points coords grown by 5 on every side: no
\* point is nearer than 5 to a side, and on each side some point is exactly 5 away
GrownBox(rect, coords) ==
    /\ \A i \in DOMAIN coords :
            /\ rect.min.x + 5 <= coords[i].x /\ coords[i].x <= rect.max.x - 5
            /\ rect.min.y + 5 <= coords[i].y /\ coords[i].y <= rect.max.y - 5
    /\ \E i \in DOMAIN coords : coords[i].x = rect.min.x + 5
    /\ \E i \in DOMAIN coords : coords[i].x = rect.max.x - 5
    /\ \E i \in DOMAIN coords : coords[i].y = rect.min.y + 5
    /\ \E i \in DOMAIN coords : coords[i].y = rect.max.y - 5

\* C23: RenderablePath::new yields no value for zero points; for one or more points it
\* yields a path whose cached bounding rectangle is the tight bounding box of the points
\* grown by 5 on every side; and every path of the document keeps this relation between
\* its cached rectangle and its current points, also after shift_paths, undo and redo.
C23_CachedBox ==
    /\ RenderablePathNew(PathNew("Black", <<>>)) = NoneValue
    /\ \A k \in DOMAIN InputCoords :
            LET path == RenderablePathNew(PathNew("Black", InputCoords[k]))
            IN  /\ path # NoneValue
                /\ path.path.coords = InputCoords[k]
                /\ GrownBox(path.bounding_rect, InputCoords[k])
    /\ \A id \in DOMAIN paths : GrownBox(paths[id].bounding_rect, paths[id].path.coords)

\* the undo of a shift_paths has moved a path, and its cached rectangle with it
C23_Witness ==
    /\ op = "undo"
    /\ pre.prev = "shift_paths"
    /\ fault = "none"
    /\ \E id \in DOMAIN paths :
            /\ id \in DOMAIN pre.s1.paths
            /\ paths[id].path.coords # pre.s1.paths[id].path.coords
            /\ paths[id].bounding_rect # pre.s1.paths[id].bounding_rect
            /\ Len(paths[id].path.coords) = 3

\* the document is as it was when the last call started
Untouched ==
    /\ paths = pre.s1.paths
    /\ tiling = pre.s1.tiling
    /\ history = pre.s1.history
    /\ selected_path_ids = pre.s1.selected_path_ids
    /\ hidden_path_ids = pre.s1.hidden_path_ids

\* C27: remove_selected_paths with an empty selection and clear_paths on an empty document
\* change nothing: no Command is recorded, the undo and the redo stack are as they were,
\* and so are the paths, the index, the selection and the hidden set.
C27_NothingChanged == EmptyEdit => fault = "none" /\ Untouched

\* a remove_selected_paths with nothing selected has returned in a document with a path,
\* a hidden path and a command to redo
C27_Witness ==
    /\ op = "remove_selected_paths"
    /\ pre.s1.selected_path_ids = {}
    /\ DOMAIN paths # {}
    /\ hidden_path_ids # {}
    /\ history.redo_stack # <<>>

\* a clear_paths on an empty document has returned with commands to undo and to redo
C27_WitnessClear ==
    /\ op = "clear_paths"
    /\ DOMAIN pre.s1.paths = {}
    /\ history.undo_stack # <<>>
    /\ history.redo_stack # <<>>

\* the last call put one Remove command on the undo stack that holds exactly the paths of
\* ids, each once and as it was when the call started
RemoveRecorded(ids) ==
    /\ history.undo_stack # <<>>
    /\ Pop(history.undo_stack) = pre.s1.history.undo_stack
    /\ Top(history.undo_stack).kind = "Remove"
    /\ Len(Top(history.undo_stack).paths) = Cardinality(ids)
    /\ ComIds(Top(history.undo_stack)) = ids
    /\ \A i \in DOMAIN Top(history.undo_stack).paths :
            Top(history.undo_stack).paths[i][2]
                = pre.s1.paths[Top(history.undo_stack).paths[i][1]]

\* the entries of the index t for the paths outside ids
EntriesWithout(t, ids) ==
    [tiles |-> {e \in TilingEntries(t).tiles : e[2] \notin ids},
     tile_ids |-> [id \in DOMAIN t.tile_ids \ ids |-> t.tile_ids[id]]]

\* the last call, an undo, has put back the paths and the index entries of the document
\* the call before it started from
Restored ==
    /\ fault = "none"
    /\ paths = pre.s2.paths
    /\ TilingEntries(tiling) = TilingEntries(pre.s2.tiling)

\* C28: remove_selected_paths with a non-empty selection removes exactly the selected paths
\* from the path collection and the tile index, leaves the selection empty and records a
\* single Remove command holding all of them; one undo restores every one of these paths.
C28_RemoveSelected ==
    /\ (op = "remove_selected_paths" /\ pre.s1.selected_path_ids # {}) =>
        /\ fault = "none"
        /\ paths = [id \in DOMAIN pre.s1.paths \ pre.s1.selected_path_ids |-> pre.s1.paths[id]]
        /\ TilingEntries(tiling) = EntriesWithout(pre.s1.tiling, pre.s1.selected_path_ids)
        /\ selected_path_ids = {}
        /\ RemoveRecorded(pre.s1.selected_path_ids)
    /\ (EditUndone /\ pre.prev = "remove_selected_paths") => Restored

\* the one selected path of two was removed by remove_selected_paths and put back by undo
C28_Witness ==
    /\ EditUndone
    /\ pre.prev = "remove_selected_paths"
    /\ Cardinality(EditRemoved) = 1
    /\ Cardinality(DOMAIN paths) = 2

\* remove_selected_paths has removed two selected paths
C28_WitnessTwo ==
    /\ op = "remove_selected_paths"
    /\ Cardinality(pre.s1.selected_path_ids) = 2
    /\ DOMAIN paths = {}

\* C29: clear_paths on a non-empty document empties the path collection, the tile index, the
\* selected set and the hidden set and records one Remove command holding a snapshot of
\* every path; a following undo puts every path back into the collection and the index with
\* the same points.
C29_Clear ==
    /\ (op = "clear_paths" /\ DOMAIN pre.s1.paths # {}) =>
        /\ fault = "none"
        /\ DOMAIN paths = {}
        /\ tiling = TilingDefault
        /\ selected_path_ids = {}
        /\ hidden_path_ids = {}
        /\ RemoveRecorded(DOMAIN pre.s1.paths)
    /\ (EditUndone /\ pre.prev = "clear_paths") =>
        /\ Restored
        /\ \A id \in DOMAIN pre.s2.paths :
                paths[id].path.coords = pre.s2.paths[id].path.coords

\* a clear_paths of two paths, one of them selected and one hidden, was undone
C29_Witness ==
    /\ EditUndone
    /\ pre.prev = "clear_paths"
    /\ Cardinality(DOMAIN paths) = 2
    /\ pre.s2.selected_path_ids # {}
    /\ pre.s2.hidden_path_ids # {}

\* the last call popped a command from the named stack of the history it started from
Popped(o, stack) == op = o /\ fault = "none" /\ stack # <<>>

\* C26: every undo or redo that pops a command performs exactly one push before it returns,
\* whatever the kind of the command and also when its id list is empty: the command leaves
\* its stack, one command arrives on the other, and the history is idle whenever a call of
\* the document returns, so that no undo or redo meets "previous operation not finished".
C26_IdleOnReturn ==
    /\ fault # "previous operation not finished"
    /\ fault = "none" => history.state = "None"
    /\ Popped("undo", pre.s1.history.undo_stack) =>
        /\ history.undo_stack = Pop(pre.s1.history.undo_stack)
        /\ history.redo_stack # <<>>
        /\ Pop(history.redo_stack) = pre.s1.history.redo_stack
    /\ Popped("redo", pre.s1.history.redo_stack) =>
        /\ history.redo_stack = Pop(pre.s1.history.redo_stack)
        /\ history.undo_stack # <<>>
        /\ Pop(history.undo_stack) = pre.s1.history.undo_stack

\* an undo has popped a Remove command that holds no path and has returned with the
\* history idle and an empty Insert command on the redo stack
C26_Witness ==
    /\ Popped("undo", pre.s1.history.undo_stack)
    /\ Top(pre.s1.history.undo_stack) = CommandRemove(<<>>)
    /\ Top(history.redo_stack) = CommandInsert(<<>>)
    /\ history.state = "None"

(***************************************************************************)
(* Properties of the preconditions (checked under SpecFaults).             *)
(***************************************************************************)
\* some id of the list the last call was given is, or is not, a path of the document
\* the call started from
SomePresent == \E i \in DOMAIN pre.arg.ids : pre.arg.ids[i] \in DOMAIN pre.s1.paths

SomeAbsent == \E i \in DOMAIN pre.arg.ids : pre.arg.ids[i] \notin DOMAIN pre.s1.paths

\* C24: an id that violates the precondition makes the call a fault: Tiling.insert_path and
\* Model.insert_paths with an id already present, Tiling.remove_path, Model.remove_paths,
\* Model.shift_paths, Model.hide_path and Model.unhide_path with an id not present. The
\* faulted call of the document records no Command and changes neither membership set.
C24_Faults ==
    /\ (op = "insert_path" /\ pre.arg.path_id \in DOMAIN pre.s1.tiling.tile_ids)
            => fault = "path already exists"
    /\ (op = "insert_paths" /\ SomePresent) => fault = "path already exists"
    /\ (op = "remove_path" /\ pre.arg.path_id \notin DOMAIN pre.s1.tiling.tile_ids)
            => fault = "path not found"
    /\ (op \in {"remove_paths", "shift_paths"} /\ SomeAbsent) => fault = "path not found"
    /\ (op \in {"hide_path", "unhide_path"} /\ pre.arg.id \notin DOMAIN paths)
            => fault = "path not found" /\ hidden_path_ids \subseteq DOMAIN paths
    /\ (op \in Edits /\ fault # "none") => history = pre.s1.history

\* shift_paths of a present and then an absent id has faulted
C24_Witness ==
    /\ op = "shift_paths"
    /\ fault = "path not found"
    /\ Len(pre.arg.ids) = 2
    /\ pre.arg.ids[1] \in DOMAIN pre.s1.paths
    /\ pre.arg.ids[2] \notin DOMAIN pre.s1.paths

\* insert_paths of an id the document holds has faulted
C24_WitnessInsert == op = "insert_paths" /\ SomePresent /\ fault = "path already exists"

\* hide_path of an id the document does not hold has faulted
C24_WitnessHide == op = "hide_path" /\ fault = "path not found"

\* remove_path of an id the index does not hold has faulted
C24_WitnessRemovePath == op = "remove_path" /\ fault = "path not found"

(***************************************************************************)
(* Properties of the tile coordinates (checked under SpecTiling).          *)
(***************************************************************************)
\* the tile whose half-open interval [128 k, 128 (k + 1)) holds the coordinate c
FloorTile(c) == CHOOSE k \in -4..4 : k * TILE_LEN <= c /\ c < (k + 1) * TILE_LEN

\* the tiles of the grid between the tiles of the two corners of rect
GridBetween(rect) ==
    { Coordinate(x, y) : x \in FloorTile(rect.min.x)..FloorTile(rect.max.x),
                         y \in FloorTile(rect.min.y)..FloorTile(rect.max.y) }

\* the tile of the i-th point of an indexed path
PointTile(path_id, i) ==
    Coordinate(FloorTile(paths[path_id].path.coords[i].x),
               FloorTile(paths[path_id].path.coords[i].y))

\* C25: tile coordinates are the floor of the division by TILE_LEN on both axes: -128..-1
\* is tile -1 and 0..127 is tile 0; the range enumerated for a bounding rectangle lists every
\* tile between the tiles of its corners once, none skipped or doubled around zero; and every
\* point of an indexed path with a segment is registered in the tile of its floor coordinates.
C25_FloorDivision ==
    /\ \A c \in (-3 * TILE_LEN)..(3 * TILE_LEN) : DivEuclid(c, TILE_LEN) = FloorTile(c)
    /\ \A c \in (-TILE_LEN)..(-1) : DivEuclid(c, TILE_LEN) = -1
    /\ \A c \in 0..(TILE_LEN - 1) : DivEuclid(c, TILE_LEN) = 0
    /\ \A rect \in TilingQueryRects :
        /\ SeqToSet(TileRange(rect)) = GridBetween(rect)
        /\ Len(TileRange(rect)) = Cardinality(GridBetween(rect))
    /\ \A path_id \in DOMAIN tiling.tile_ids :
        Len(paths[path_id].path.coords) >= 2 =>
            \A i \in DOMAIN paths[path_id].path.coords :
                /\ PointTile(path_id, i) \in tiling.tile_ids[path_id]
                /\ path_id \in DOMAIN GetOrDefault(tiling.tiles, PointTile(path_id, i))

\* the indexed path (-5,100)-(120,0)-(136,250) has points on both sides of zero on the x
\* axis: its first point is registered in tile (-1, 0), its second in tile (0, 0)
C25_Witness ==
    \E path_id \in DOMAIN tiling.tile_ids :
        /\ paths[path_id].path.coords = InputCoords[2]
        /\ Coordinate(-1, 0) \in tiling.tile_ids[path_id]
        /\ Coordinate(0, 0) \in tiling.tile_ids[path_id]
        /\ PointTile(path_id, 1) = Coordinate(-1, 0)

(***************************************************************************)
(* Properties of the gestures (checked under SpecGesture).                 *)
(***************************************************************************)
\* the paths the active erase handler has collected
Removing == active_handler.removing_path_ids

\* the paths not yet collected with a segment that meets the eraser line of this step,
\* from the point the handler was at to the point it is at after the step
Hit ==
    {id \in DOMAIN paths \ Removing :
        \E i \in DOMAIN Lines(paths[id].path.coords) :
            LineIntersectsLine(Lines(paths[id].path.coords)[i],
                               LineNew(active_handler.prev_coord, active_handler'.prev_coord))}

\* a pointer move of an erase gesture hides the paths it hits and removes none
EraseMoved ==
    (HandlerKind(active_handler) = "Erase" /\ HandlerKind(active_handler') = "Erase") =>
        /\ fault' = "none"
        /\ active_handler'.removing_path_ids = Removing \cup Hit
        /\ hidden_path_ids' = hidden_path_ids \cup Hit
        /\ active_handler'.removing_path_ids \subseteq hidden_path_ids'
        /\ paths' = paths
        /\ tiling' = tiling
        /\ history' = history

\* the pointer-up of an erase gesture removes the collected paths, each once, under one
\* Remove command that holds them as they were
ErasedAtPointerUp ==
    (HandlerKind(active_handler) = "Erase" /\ op' = "on_pointer_up") =>
        /\ fault' = "none"
        /\ paths' = [id \in DOMAIN paths \ Removing |-> paths[id]]
        /\ DOMAIN tiling'.tile_ids = DOMAIN paths'
        /\ hidden_path_ids' = hidden_path_ids \ Removing
        /\ history'.undo_stack # <<>>
        /\ Pop(history'.undo_stack) = history.undo_stack
        /\ Top(history'.undo_stack).kind = "Remove"
        /\ Len(Top(history'.undo_stack).paths) = Cardinality(Removing)
        /\ ComIds(Top(history'.undo_stack)) = Removing
        /\ \A i \in DOMAIN Top(history'.undo_stack).paths :
                Top(history'.undo_stack).paths[i][2] = paths[Top(history'.undo_stack).paths[i][1]]

\* this step is an undo that pops the command of the erase gesture that has just ended
UndoOfErase ==
    /\ op = "on_pointer_up"
    /\ HandlerKind(pre.ret) = "Erase"
    /\ history.undo_stack # <<>>
    /\ history'.undo_stack = Pop(history.undo_stack)
    /\ Len(history'.redo_stack) = Len(history.redo_stack) + 1

\* the undo after an erase gesture puts back every path the gesture removed
ErasedRestored ==
    UndoOfErase =>
        /\ fault' = "none"
        /\ DOMAIN paths' = DOMAIN paths \cup pre.ret.removing_path_ids
        /\ DOMAIN tiling'.tile_ids = DOMAIN paths'
        /\ \A i \in DOMAIN Top(history.undo_stack).paths :
                paths'[Top(history.undo_stack).paths[i][1]] = Top(history.undo_stack).paths[i][2]
        /\ \A id \in DOMAIN paths : paths'[id] = paths[id]

\* C30: an erase gesture (pointer-down with the eraser, any number of pointer-moves,
\* pointer-up) hides each path whose segment the eraser line crosses as soon as it is hit
\* and removes no path before pointer-up; at pointer-up it removes every hit path exactly
\* once under a single Remove command, also when the index reported the path for several
\* tiles, and one undo restores all the paths the gesture erased.
C30_EraseGesture == [][EraseMoved /\ ErasedAtPointerUp /\ ErasedRestored]_vars

\* an erase gesture has ended that hit the path (120,120)-(136,124), which the index holds
\* in two tiles: the path is gone and the Remove command on top of the undo stack holds it
C30_Witness ==
    /\ op = "on_pointer_up"
    /\ HandlerKind(pre.ret) = "Erase"
    /\ Cardinality(pre.ret.removing_path_ids) = 1
    /\ pre.ret.removing_path_ids \cap DOMAIN paths = {}
    /\ Top(history.undo_stack).kind = "Remove"
    /\ Len(Top(history.undo_stack).paths) = 1
    /\ Top(history.undo_stack).paths[1][2].path.coords
            = <<Coordinate(120, 120), Coordinate(136, 124)>>

\* a pointer move of an erase gesture has hit a path, which is hidden and still in the
\* document
C30_WitnessHidden ==
    /\ HandlerKind(active_handler) = "Erase"
    /\ active_handler.removing_path_ids # {}
    /\ active_handler.removing_path_ids \subseteq hidden_path_ids
    /\ active_handler.removing_path_ids \subseteq DOMAIN paths

\* the paths the active shift handler holds
Shifting == active_handler.shifting_path_ids

\* the pointer-down that starts a shift gesture hides every selected path and holds them
ShiftStarted ==
    (HandlerKind(active_handler) = "None" /\ HandlerKind(active_handler') = "Shift") =>
        /\ fault' = "none"
        /\ active_handler'.shifting_path_ids = selected_path_ids
        /\ active_handler'.prev_coord = active_handler'.start_coord
        /\ hidden_path_ids' = hidden_path_ids \cup selected_path_ids
        /\ selected_path_ids' = selected_path_ids
        /\ paths' = paths
        /\ history' = history

\* a pointer move of a shift gesture changes no path, only the point the handler is at
ShiftMoved ==
    (HandlerKind(active_handler) = "Shift" /\ HandlerKind(active_handler') = "Shift") =>
        /\ fault' = "none"
        /\ active_handler'.shifting_path_ids = Shifting
        /\ active_handler'.start_coord = active_handler.start_coord
        /\ paths' = paths
        /\ tiling' = tiling
        /\ history' = history
        /\ hidden_path_ids' = hidden_path_ids
        /\ selected_path_ids' = selected_path_ids

\* the pointer-up of a shift gesture moves the held paths, and no other, by the way from
\* the start to the last point under one Shift command, and unhides them
ShiftedAtPointerUp ==
    (HandlerKind(active_handler) = "Shift" /\ op' = "on_pointer_up") =>
        /\ fault' = "none"
        /\ active_handler' = NoneValue
        /\ DOMAIN paths' = DOMAIN paths
        /\ \A id \in DOMAIN paths :
                paths'[id] =
                    IF id \in Shifting
                    THEN RenderablePathNew(PathNew(paths[id].path.color,
                            Translate(paths[id].path.coords,
                                      CoordSub(active_handler.prev_coord,
                                               active_handler.start_coord))))
                    ELSE paths[id]
        /\ hidden_path_ids' = hidden_path_ids \ Shifting
        /\ selected_path_ids' = selected_path_ids
        /\ history'.undo_stack # <<>>
        /\ Pop(history'.undo_stack) = history.undo_stack
        /\ Top(history'.undo_stack).kind = "Shift"
        /\ Top(history'.undo_stack).delta
                = CoordSub(active_handler.prev_coord, active_handler.start_coord)
        /\ SeqToSet(Top(history'.undo_stack).path_ids) = Shifting
        /\ Len(Top(history'.undo_stack).path_ids) = Cardinality(Shifting)

\* C31: a shift gesture hides every selected path at pointer-down, leaves the points of
\* all paths unchanged during the pointer-moves, and at pointer-up moves exactly the paths
\* selected at pointer-down by (last pointer position - start position) under a single
\* Shift command and unhides each of them.
C31_ShiftGesture == [][ShiftStarted /\ ShiftMoved /\ ShiftedAtPointerUp]_vars

\* a shift gesture has ended away from its start: the Shift command on top of the undo
\* stack names the held path and the way (16, 4), and the path is shown again
C31_Witness ==
    /\ op = "on_pointer_up"
    /\ HandlerKind(pre.ret) = "Shift"
    /\ fault = "none"
    /\ pre.ret.shifting_path_ids # {}
    /\ Top(history.undo_stack).kind = "Shift"
    /\ Top(history.undo_stack).delta = Coordinate(16, 4)
    /\ SeqToSet(Top(history.undo_stack).path_ids) = pre.ret.shifting_path_ids
    /\ pre.ret.shifting_path_ids \cap hidden_path_ids = {}

(***************************************************************************)
(* Properties of the controller's events (checked under SpecCtrl).         *)
(***************************************************************************)
\* what an event that does nothing leaves: the document, the offset and the handler
Ignored == [m |-> Cur, offset |-> offset, h |-> active_handler]

\* C32: at most one gesture handler is active at a time: a pointer-down received while a
\* handler is active is ignored (no new handler, no change to the selection or the
\* document), a pointer-move with no active handler does nothing, and pointer-up takes the
\* active handler to finish it and leaves none active.
C32_OneHandler ==
    /\ active_handler # NoneValue =>
            \A button \in Buttons, coord \in CtrlCoords :
                PointerDown(Cur, tool, offset, active_handler, button, coord) = Ignored
    /\ active_handler = NoneValue =>
            \A coord \in CtrlCoords : PointerMove(Cur, offset, active_handler, coord) = Ignored
    /\ op = "on_pointer_up" => active_handler = NoneValue
    /\ HandlerKind(active_handler) \in {"None", "Scroll", "Select", "Shift", "Draw", "Erase"}

\* a selection drag is active and has selected a path: a left pointer-down beside the
\* path, which would clear the selection and start a new handler, is ignored
C32_Witness ==
    /\ HandlerKind(active_handler) = "Select"
    /\ selected_path_ids # {}
    /\ fault = "none"
    /\ \E coord \in CtrlCoords :
            /\ \A id \in selected_path_ids :
                    ~RectContainsCoord(paths[id].bounding_rect, CoordAt(offset, coord))
            /\ PointerDown(Cur, tool, offset, active_handler, "Left", coord) = Ignored

\* a pointer-up has finished a draw handler and left none active
C32_WitnessUp ==
    /\ op = "on_pointer_up"
    /\ HandlerKind(pre.ret) = "Draw"
    /\ active_handler = NoneValue
    /\ DOMAIN paths # {}

\* the screen points of a pointer event over one of the board points
PointerCoords == {coord \in CtrlCoords : CoordAt(offset, coord) \in BoardCoords}

\* the pointer at the screen point coord is inside the cached bounding rectangle of a
\* selected path
OnSelected(coord) ==
    \E id \in selected_path_ids :
        RectContainsCoord(paths[id].bounding_rect, CoordAt(offset, coord))

\* what a left pointer-down at the screen point coord does to the selection and the
\* handler in this state: beside every selected path it clears the selection, on a
\* selected path it keeps the selection and starts a shift gesture, whatever the tool
LeftDownSelects(coord) ==
    \A t \in Tools :
        IF OnSelected(coord)
        THEN /\ PointerDown(Cur, t, offset, active_handler, "Left", coord).m.selected_path_ids
                    = selected_path_ids
             /\ HandlerKind(PointerDown(Cur, t, offset, active_handler, "Left", coord).h)
                    = "Shift"
        ELSE PointerDown(Cur, t, offset, active_handler, "Left", coord).m.selected_path_ids
                    = {}

\* set_tool to any tool but the selector clears the selection
SetToolClears ==
    \A t \in Tools \ {"Selector"} : ModelSetTool(Cur, t).selected_path_ids = {}

\* C33 as stated: the selection is cleared on set_tool to any tool other than Selector and
\* on every left pointer-down that is not inside the cached bounding rectangle of a
\* selected path; every left pointer-down inside such a rectangle keeps the selection and
\* starts a shift gesture whatever the current tool.
C33_Original ==
    fault = "none" => SetToolClears /\ \A coord \in PointerCoords : LeftDownSelects(coord)

\* C33: the selection is cleared on set_tool to any tool other than Selector and, while no
\* handler is active, on a left pointer-down that is not inside the cached bounding
\* rectangle of a selected path; while no handler is active a left pointer-down inside
\* such a rectangle keeps the selection and starts a shift gesture whatever the current
\* tool. A left pointer-down while a handler is active changes nothing.
C33_Selection ==
    fault = "none" =>
        /\ SetToolClears
        /\ active_handler = NoneValue => \A coord \in PointerCoords : LeftDownSelects(coord)
        /\ active_handler # NoneValue =>
                \A coord \in PointerCoords :
                    PointerDown(Cur, tool, offset, active_handler, "Left", coord) = Ignored

\* a left pointer-down on a selected path has started a shift gesture that holds the
\* selection, which is kept
C33_Witness ==
    /\ HandlerKind(active_handler) = "Shift"
    /\ active_handler.prev_coord = active_handler.start_coord
    /\ active_handler.shifting_path_ids = selected_path_ids
    /\ selected_path_ids # {}
    /\ \E id \in selected_path_ids :
            RectContainsCoord(paths[id].bounding_rect, active_handler.start_coord)

\* no handler is active and a path is selected: a left pointer-down beside it is about to
\* clear the selection, one on it to start a shift gesture
C33_WitnessBoth ==
    /\ active_handler = NoneValue
    /\ selected_path_ids # {}
    /\ \E coord \in PointerCoords : OnSelected(coord)
    /\ \E coord \in PointerCoords :
            /\ ~OnSelected(coord)
            /\ PointerDown(Cur, tool, offset, active_handler, "Left", coord).m.selected_path_ids
                    = {}

(***************************************************************************)
(* Properties of the change tracking (checked under SpecRecorder).         *)
(***************************************************************************)
\* the storage holds what the document and the settings are now
Saved ==
    /\ DeserializePaths(storage.paths) = paths
    /\ storage.offset = offset
    /\ storage.tool = tool
    /\ storage.pen_color = pen_color

\* C34: get_mut always marks the value updated, update(f) marks it iff f returns true and
\* never un-marks it, resolve un-marks it; commit saves only the persisted fields (paths,
\* offset, tool, pen_color) that are marked and leaves every field un-marked, so that after
\* every commit, which ends every controller event, the saved paths, offset, tool and pen
\* colour equal the ones in memory.
C34_ChangeTracking ==
    /\ \A u \in BOOLEAN :
        /\ RecorderGetMut(u)
        /\ ~RecorderResolve(u)
        /\ \A changed \in BOOLEAN :
            /\ RecorderUpdate(u, changed) = (u \/ changed)
            /\ u => RecorderUpdate(u, changed)
    /\ \A f \in PersistedFields :
            Save(storage, is_updated, Persisted)[f]
                = IF is_updated[f] THEN Persisted[f] ELSE storage[f]
    /\ \A f \in PersistedFields : ~is_updated[f] => storage[f] = Persisted[f]
    /\ op = "commit" => Saved /\ \A f \in RecorderFields : ~is_updated[f]

\* a commit has saved the paths and the tool, which were marked, after a path was moved,
\* and has left the offset, which was scrolled before, as it was saved
C34_Witness ==
    /\ op = "commit"
    /\ Saved
    /\ storage.tool = "Eraser"
    /\ storage.offset # Coordinate(0, 0)
    /\ storage.pen_color = "Red"
    /\ \E id \in DOMAIN paths : paths[id].path.coords # InputCoords[1] /\ id = 1

\* the paths were changed and are marked: what is saved is behind what is in memory
C34_WitnessMarked ==
    /\ is_updated["paths"]
    /\ ~is_updated["tool"]
    /\ DeserializePaths(storage.paths) # paths
    /\ storage.paths # EmptyMap

(***************************************************************************)
(* What shift_paths and insert_paths leave alone (checked under Spec)      *)
(***************************************************************************)
\* C35: shift_paths changes only the points, and with them the cached rectangle and the
\* index entries, of the listed paths: the ids of the collection, every unlisted path and
\* its index entries, the selected set and the hidden set are as before; insert_paths
\* leaves the paths that existed, the selected set and the hidden set as they were.
C35_Frame ==
    /\ op = "shift_paths" =>
        /\ fault = "none"
        /\ DOMAIN paths = DOMAIN pre.s1.paths
        /\ \A id \in DOMAIN paths \ SeqToSet(pre.arg.ids) : paths[id] = pre.s1.paths[id]
        /\ \A id \in SeqToSet(pre.arg.ids) :
                /\ paths[id].path.color = pre.s1.paths[id].path.color
                /\ paths[id].path.coords = Translate(pre.s1.paths[id].path.coords, pre.arg.delta)
        /\ EntriesWithout(tiling, SeqToSet(pre.arg.ids))
                = EntriesWithout(pre.s1.tiling, SeqToSet(pre.arg.ids))
        /\ selected_path_ids = pre.s1.selected_path_ids
        /\ hidden_path_ids = pre.s1.hidden_path_ids
    /\ op = "insert_paths" =>
        /\ fault = "none"
        /\ DOMAIN paths = DOMAIN pre.s1.paths \cup SeqToSet(pre.arg.ids)
        /\ \A id \in DOMAIN pre.s1.paths : paths[id] = pre.s1.paths[id]
        /\ selected_path_ids = pre.s1.selected_path_ids
        /\ hidden_path_ids = pre.s1.hidden_path_ids

\* a shift_paths has moved a selected, hidden path and left another path where it was
C35_Witness ==
    /\ op = "shift_paths"
    /\ \E id \in SeqToSet(pre.arg.ids) :
            /\ id \in selected_path_ids \cap hidden_path_ids
            /\ paths[id].bounding_rect # pre.s1.paths[id].bounding_rect
    /\ DOMAIN paths \ SeqToSet(pre.arg.ids) # {}

\* an insert_paths has added a path to a document with a selected and a hidden path
C35_WitnessInsert ==
    /\ op = "insert_paths"
    /\ DOMAIN pre.s1.paths # {}
    /\ selected_path_ids # {}
    /\ hidden_path_ids # {}

(***************************************************************************)
(* The selection drag against a rescan of the canvas (SpecDrag)            *)
(***************************************************************************)
\* the paths whose bounding box the marquee from start to current contains: what
\* select_paths_with(whole_rect, whole_rect) finds in a document with nothing selected
Enclosed(ps, start, current) ==
    {id \in DOMAIN ps :
        RectContainsRect(RectNew(start, current), CoordsBoundingRect(ps[id].path.coords))}

\* the selection drag after a pointer move to coord
DragTo(coord) == SelectMoveTo(active_handler, Cur, offset, coord)

\* C36: during a selection drag, which starts with an empty selection, after every
\* pointer-move the selected set is the set of the paths whose bounding box the marquee
\* from the start to the current point contains, as a rescan of the canvas would find it.
C36_Drag ==
    HandlerKind(active_handler) = "Select" =>
        \A coord \in DragCoords :
            /\ DragTo(coord).m.fault = "none"
            /\ DragTo(coord).m.selected_path_ids
                    = Enclosed(paths, DragTo(coord).h.start_coord, DragTo(coord).h.prev_coord)

(***************************************************************************)
(* The paths a gesture holds, under every interleaving of events (SpecCtrl)  *)
(***************************************************************************)
\* the ids the active handler holds
Held ==
    CASE HandlerKind(active_handler) = "Erase" -> active_handler.removing_path_ids
      [] HandlerKind(active_handler) = "Shift" -> active_handler.shifting_path_ids
      [] OTHER -> {}

\* C37: no sequence of controller events faults: under every interleaving of pointer
\* events with key-down (Delete, Ctrl+Z, Ctrl+Y), clear and tool changes, every path id
\* an active erase or shift handler holds is in the document, so that pointer-up never
\* meets "path not found".
C37_NoFault ==
    /\ fault = "none"
    /\ Held \subseteq DOMAIN paths

(***************************************************************************)
(* The commands on the stacks can be rolled back (checked under Spec)      *)
(***************************************************************************)
\* rollback of com meets no missing and no duplicate path: the ids of an Insert or a
\* Shift are in the document, those of a Remove are not
Applicable(com) ==
    IF com.kind = "Remove" THEN ComIds(com) \cap DOMAIN paths = {}
    ELSE ComIds(com) \subseteq DOMAIN paths

\* C38: under calls of the Model API whose arguments respect the preconditions (fresh ids
\* are inserted, present ids shifted and removed), undo and redo never fault: the command
\* on top of each stack is applicable, every id of an Insert or Shift about to be rolled
\* back being in the document and every id of a Remove being absent.
C38_Applicable ==
    /\ fault = "none"
    /\ history.undo_stack # <<>> => Applicable(Top(history.undo_stack))
    /\ history.redo_stack # <<>> => Applicable(Top(history.redo_stack))
    /\ ModelUndo(Cur).fault = "none"
    /\ ModelRedo(Cur).fault = "none"

\* an undo has put a removed path back: the Insert it recorded waits on the redo stack,
\* to be rolled back by removing the path, and the command that created the path on the
\* undo stack
C38_Witness ==
    /\ op = "undo"
    /\ pre.prev = "remove_paths"
    /\ history.undo_stack # <<>>
    /\ history.redo_stack # <<>>
    /\ Top(history.redo_stack).kind = "Insert"
    /\ Top(history.redo_stack).path_ids # <<>>
    /\ ComIds(Top(history.undo_stack)) \cap ComIds(Top(history.redo_stack)) # {}

(***************************************************************************)
(* The paths of the controller in the index (checked under SpecCtrl)       *)
(***************************************************************************)
\* C39: every path of the document is found through the tile index: bounding_tile_items
\* queried with the bounding rectangle of the path, that of its points as well as the
\* cached one, yields the path; this holds for every path the controller creates, also
\* for the one a click without a pointer-move draws.
C39_Findable ==
    fault = "none" =>
        \A id \in DOMAIN paths :
            /\ id \in Yielded(CoordsBoundingRect(paths[id].path.coords))
            /\ id \in Yielded(paths[id].bounding_rect)

\* the document holds a path drawn by a click and moved since across a tile boundary
C39_Witness ==
    /\ fault = "none"
    /\ \E id \in DOMAIN paths :
            /\ paths[id].path.coords = <<Coordinate(136, 124), Coordinate(136, 124)>>
            /\ Top(history.undo_stack).kind = "Shift"
            /\ id \in SeqToSet(Top(history.undo_stack).path_ids)
            /\ id \in Yielded(paths[id].bounding_rect)

(***************************************************************************)
(* Gestures that change no path (checked under SpecGesture)                *)
(***************************************************************************)
\* the step is the pointer-up of an erase gesture that has hit no path
EmptyErase ==
    /\ HandlerKind(active_handler) = "Erase"
    /\ active_handler.removing_path_ids = {}
    /\ op' = "on_pointer_up"

\* the step is the pointer-up of a shift gesture at the point where it started
ShiftToStart ==
    /\ HandlerKind(active_handler) = "Shift"
    /\ active_handler.prev_coord = active_handler.start_coord
    /\ op' = "on_pointer_up"

\* C40: a gesture that changes nothing leaves the edit history as it was: an erase gesture
\* that hits no path and a shift gesture released where it started push no command, so
\* the undo stack does not grow and a redo stack is not cleared.
C40_HistoryKept == [][(EmptyErase \/ ShiftToStart) => history' = history]_vars

====
